---------------------------- MODULE Spec2Model ----------------------------
(***************************************************************************)
(* Model of the quantification subsystem of PSEUDO:                        *)
(*   quantify/resources.py       radius table and get_atom_radius          *)
(*   quantify/ownership_logic.py build_spatial_index, query_voxel_ownership*)
(*   quantify/aggregator.py      solve_voxel, aggregate_ensemble           *)
(*                                                                         *)
(* Units.  Lengths (positions, radii) are integers in 1/1000 Angstrom;     *)
(* table radii are in 1/100 Angstrom and the multiplier k in tenths, so    *)
(* radius * k is exact.  Resolutions are in 1/10 Angstrom.                 *)
(*                                                                         *)
(* Density values are IEEE binary32 numbers m * 2^e with a 24 bit          *)
(* significand m; every value of one ensemble lies in one binade, so a     *)
(* value is its significand m in 2^23 .. 2^24, counted in quanta of 2^e.   *)
(* binary32 sums and quotients are rounded to nearest, ties to even, as    *)
(* numpy does for float32 input; binary64 results of solve_voxel are kept  *)
(* as exact rationals (a sum of a few 24 bit integers is exact in 53 bits, *)
(* the 2^-53 relative error of the quotients is not modelled).  A standard *)
(* deviation is kept as the rational under its square root.                *)
(***************************************************************************)
EXTENDS Integers, Sequences, FiniteSets, TLC

VARIABLES
    pc,            \* position of the run being modelled
    rq,            \* get_atom_radius: arguments [element, res_lo, res_hi]
    rq_radius,     \* get_atom_radius: <<>> or <<radius at res_lo, radius at res_hi>>
    omission_map,  \* build_spatial_index: the schedule, a sequence of <<key, map_ids>>
    mode,          \* build_spatial_index: "atoms" or "amino_acids"
    resolution,    \* build_spatial_index: resolution in 1/10 Angstrom
    k,             \* build_spatial_index: radius multiplier in tenths
    spatial_index, \* <<>> (None) or <<index record>>
    query,         \* query_voxel_ownership: <<>> or <<[point, n_maps, result]>>
    sv,            \* solve_voxel: <<>> or <<[values, status, result]>>
    ensemble,      \* aggregate_ensemble: [scale, members], members a sequence of grids
    outputs,       \* aggregate_ensemble: <<>> or <<what was written at each cell>>
    snr_grid,      \* statistical model: <<>> or <<the SNR grid>>
    mask,          \* sample_null_distribution: <<>> or <<[shape, value]>>, the protein mask
    n_samples,     \* sample_null_distribution: number of trials asked for
    draws,         \* sample_null_distribution: the coordinates drawn so far
    null_samples,  \* sample_null_distribution: the values kept so far
    p_value_map,   \* fit_t_test: <<>> or <<the p-value grid>>
    files,         \* run_quantification: <<>> or <<[maps, original_pdb, force]>>, the experiment's files and the force flag
    stages,        \* run_quantification: the stage functions called so far, in order
    written,       \* run_quantification: the output files written so far
    diag,          \* run_quantification: the messages printed so far
    cell_writes,   \* aggregation by cell: how often each cell has been written
    sample_args,   \* omission sampler: <<>> or <<the arguments of the call>>
    iteration,     \* omission sampler: number of shuffles done
    selections,    \* omission sampler: the selections yielded so far
    exception,     \* omission sampler: "" or the exception the call raised
    calls,         \* omission sampler: the steps of the call taken so far, in order
    call,          \* debias functions: <<>> or <<the arguments of the call>>
    result,        \* debias functions: <<>> or <<what the call returned or raised>>
    disk,          \* ParameterFile.save: the files of the output directory
    file_path      \* ParameterFile.save: the instance's file_path

core_vars == <<rq, rq_radius, omission_map, mode, resolution, k, spatial_index, query, sv, ensemble, outputs>>
stat_vars == <<snr_grid, mask, n_samples, draws, null_samples, p_value_map>>
run_vars == <<files, stages, written, diag>>
cell_vars == <<cell_writes>>
sampler_vars == <<sample_args, iteration, selections, exception, calls>>
debias_vars == <<call, result, disk, file_path>>
later_vars == <<stat_vars, run_vars, cell_vars, sampler_vars, debias_vars>>

vars == <<pc, core_vars, later_vars>>

None == <<>>
Some(x) == <<x>>
Get(opt) == opt[1]

---------------------------------------------------------------------------
(* Sequence helpers *)

Range(s) == {s[i] : i \in DOMAIN s}

RECURSIVE SumSeq(_)
SumSeq(s) == IF s = <<>> THEN 0 ELSE s[1] + SumSeq(Tail(s))

\* The subsequence of s at the positions where keep is TRUE, in order
\* (numpy boolean-mask indexing).
RECURSIVE Masked(_, _)
Masked(s, keep) ==
    IF s = <<>> THEN <<>>
    ELSE (IF keep[1] THEN <<s[1]>> ELSE <<>>) \o Masked(Tail(s), Tail(keep))

\* Python's sorted() on a set of integers.
RECURSIVE Sorted(_)
Sorted(S) ==
    IF S = {} THEN <<>>
    ELSE LET m == CHOOSE x \in S : \A y \in S : x <= y
         IN <<m>> \o Sorted(S \ {m})

\* Python's max() of a non-empty sequence of integers.
SeqMax(s) == CHOOSE x \in Range(s) : \A y \in Range(s) : y <= x

\* All orderings of a finite set, as sequences without repetition.
Orderings(S) ==
    {f \in [1..Cardinality(S) -> S] : \A i, j \in 1..Cardinality(S) : f[i] = f[j] => i = j}

---------------------------------------------------------------------------
(* Arithmetic *)

Abs(x) == IF x < 0 THEN -x ELSE x

RECURSIVE GCD(_, _)
GCD(a, b) == IF b = 0 THEN Abs(a) ELSE GCD(b, a % b)

\* The rational num/den in lowest terms, den > 0.
Rat(num, den) ==
    LET g == GCD(Abs(num), den)
    IN [num |-> num \div g, den |-> den \div g]

RatLess(p, q) == p.num * q.den < q.num * p.den

\* a/b (b > 0) rounded to the nearest integer, ties to the even one.
RoundHalfEven(a, b) ==
    LET q == a \div b
        r == a % b
    IN IF 2 * r < b THEN q
       ELSE IF 2 * r > b THEN q + 1
       ELSE IF q % 2 = 0 THEN q ELSE q + 1

\* Bits of a binary32 significand.
SignificandBits == 24

RECURSIVE Pow2(_)
Pow2(n) == IF n = 0 THEN 1 ELSE 2 * Pow2(n - 1)

\* Spacing of the binary32 numbers around x, in quanta (1 below 2^24: every
\* integer number of quanta is then a binary32 number).
RECURSIVE Ulp32(_)
Ulp32(x) == IF Abs(x) < Pow2(SignificandBits) THEN 1 ELSE 2 * Ulp32(Abs(x) \div 2)

\* a/b as binary32.
Div32(a, b) ==
    LET u == Ulp32(a \div b)
    IN u * RoundHalfEven(a, b * u)

\* x as binary32.
Fl32(x) == Div32(x, 1)

\* np.add.reduce over float32: the elements are added left to right, starting
\* from 0, each partial sum rounded (fewer than 8 elements: no pairwise split).
RECURSIVE Sum32From(_, _)
Sum32From(acc, s) == IF s = <<>> THEN acc ELSE Sum32From(Fl32(acc + s[1]), Tail(s))

Sum32(s) == Sum32From(0, s)

\* np.mean of a non-empty float32 vector.
Mean32(s) == Div32(Sum32(s), Len(s))

\* A standard deviation: NaN, or the square root of the rational num/den
\* (in quanta squared).
NaNStd == [tag |-> "nan", num |-> 0, den |-> 1]
SqrtOf(num, den) == [tag |-> "sqrt"] @@ Rat(num, den)

\* np.std(values, ddof=1) of a float32 vector: deviations from the float32 mean,
\* squared and summed, divided by n - 1; 0/0 is NaN.
Std32(s) ==
    LET m == Mean32(s)
        sq == [i \in DOMAIN s |-> (s[i] - m) * (s[i] - m)]
    IN IF Len(s) - 1 = 0 THEN NaNStd ELSE SqrtOf(SumSeq(sq), Len(s) - 1)

\* np.mean of a float64 vector of whole quanta.
Mean64(s) == Rat(SumSeq(s), Len(s))

\* np.std(values, ddof=1) of a float64 vector of whole quanta: the deviation
\* of s[i] from the mean is (n * s[i] - sum) / n.
Std64(s) ==
    LET n == Len(s)
        t == SumSeq(s)
        sq == [i \in DOMAIN s |-> (n * s[i] - t) * (n * s[i] - t)]
    IN IF n - 1 = 0 THEN NaNStd ELSE SqrtOf(SumSeq(sq), n * n * (n - 1))

---------------------------------------------------------------------------
(* quantify/resources.py *)

\* The thresholds of every profile, in 1/10 Angstrom, with the six radii of one
\* element in 1/100 Angstrom.
Profile(r05, r10, r15, r20, r25, r30) ==
    (5 :> r05) @@ (10 :> r10) @@ (15 :> r15) @@ (20 :> r20) @@ (25 :> r25) @@ (30 :> r30)

\* Element names are sequences of characters, so that upper() and strip() act
\* on them.
ATOM_RADII_DATA ==
    (<<"H">> :> Profile(108, 120, 129, 141, 168, 198)) @@
    (<<"C">> :> Profile(102, 114, 126, 138, 165, 198)) @@
    (<<"N">> :> Profile(96, 111, 123, 135, 162, 195)) @@
    (<<"O">> :> Profile(93, 108, 120, 132, 162, 192)) @@
    (<<"S">> :> Profile(90, 105, 117, 132, 162, 192)) @@
    (<<"P">> :> Profile(90, 105, 117, 132, 162, 195)) @@
    (<<"S", "E">> :> Profile(84, 99, 111, 129, 159, 189)) @@
    (<<"M", "G">> :> Profile(87, 102, 114, 132, 162, 192)) @@
    (<<"C", "L">> :> Profile(90, 105, 117, 132, 162, 192)) @@
    (<<"C", "A">> :> Profile(87, 102, 117, 132, 162, 192))

UpperChar(c) ==
    CASE c = "a" -> "A" [] c = "c" -> "C" [] c = "e" -> "E" [] c = "g" -> "G"
      [] c = "h" -> "H" [] c = "l" -> "L" [] c = "n" -> "N" [] c = "o" -> "O"
      [] c = "p" -> "P" [] c = "s" -> "S" [] c = "z" -> "Z"
      [] OTHER -> c

Upper(s) == [i \in DOMAIN s |-> UpperChar(s[i])]

RECURSIVE LStrip(_)
LStrip(s) == IF s # <<>> /\ s[1] = " " THEN LStrip(Tail(s)) ELSE s

RECURSIVE RStrip(_)
RStrip(s) == IF s # <<>> /\ s[Len(s)] = " " THEN RStrip(SubSeq(s, 1, Len(s) - 1)) ELSE s

Strip(s) == RStrip(LStrip(s))

\* SelectLevel with "resolution > level" for "resolution >= level".
RECURSIVE SelectLevelStrict(_, _, _)
SelectLevelStrict(levels, res, selected) ==
    IF levels = <<>> THEN selected
    ELSE IF res > levels[1] THEN SelectLevelStrict(Tail(levels), res, levels[1])
    ELSE selected

\* The for loop of get_atom_radius: the last level, in ascending order, up to
\* the first one above the resolution.
RECURSIVE SelectLevel(_, _, _)
SelectLevel(levels, res, selected) ==
    IF levels = <<>> THEN selected
    ELSE IF res >= levels[1] THEN SelectLevel(Tail(levels), res, levels[1])
    ELSE selected

get_atom_radius(elem, res) ==
    LET e1 == Strip(Upper(elem))
        e2 == IF e1 \notin DOMAIN ATOM_RADII_DATA THEN <<"C">> ELSE e1
        profile == ATOM_RADII_DATA[e2]
        available_res_levels == Sorted(DOMAIN profile)
        selected_level == SelectLevel(available_res_levels, res, available_res_levels[1])
    IN profile[selected_level]

---------------------------------------------------------------------------
(* The reference structure read by gemmi.read_structure *)

\* The character \u0000, which a key carries for "no alternate location".
NUL == "NUL"

Atom(chain, seq, resname, name, altloc, elem, pos) ==
    [chain |-> chain, seq |-> seq, resname |-> resname, name |-> name,
     altloc |-> altloc, element |-> elem, pos |-> pos]

\* Model 1 of the structure file, its atoms in file order: a serine with a
\* hydrogen, and a selenomethionine whose CB has two alternate locations.
Structure ==
    << Atom("A", "1", "SER", "N", "", <<"N">>, <<0, 0, 0>>),
       Atom("A", "1", "SER", "CA", "", <<"C">>, <<1400, 0, 0>>),
       Atom("A", "1", "SER", "HA", "", <<"H">>, <<1400, 1000, 0>>),
       Atom("A", "2", "MSE", "CB", "A", <<"C">>, <<4200, 1400, 0>>),
       Atom("A", "2", "MSE", "CB", "B", <<"C">>, <<4200, -1400, 0>>),
       Atom("A", "2", "MSE", "SE", "", <<"S", "e">>, <<4200, 0, 0>>) >>

---------------------------------------------------------------------------
(* quantify/ownership_logic.py *)

\* A key is the sequence key.split("|").
parse_atom_key(key) ==
    LET altloc == IF Len(key) > 4 /\ key[5] # NUL THEN key[5] ELSE ""
    IN <<key[1], key[2], key[3], key[4], altloc>>

parse_residue_key(key) == <<key[1], key[2], key[3]>>

\* max() raises ValueError on an empty list: callers test map_ids first.
update_max_map(map_ids, max_map_id_seen) ==
    LET curr == SeqMax(map_ids)
    IN IF curr > max_map_id_seen THEN curr ELSE max_map_id_seen

\* gemmi.Selection("/1/chain/seq").copy_structure_selection(structure)[0][0][0]:
\* the atoms of the selected residue, <<>> when nothing is selected (IndexError).
SelectResidue(chain_id, res_seq) ==
    LET InRes(a) == a.chain = chain_id /\ a.seq = res_seq
    IN SelectSeq(Structure, InRes)

\* gemmi.Selection("/1/chain/seq/name[:altloc]"): the selected atoms; without an
\* altloc part every alternate location is selected.
SelectAtoms(chain_id, res_seq, atom_name, altloc) ==
    LET Hit(a) == /\ a.chain = chain_id /\ a.seq = res_seq /\ a.name = atom_name
                  /\ (altloc = "" \/ a.altloc = altloc)
    IN SelectSeq(Structure, Hit)

\* One atom record: position, radius = lookup * k, owner key.
AtomRecord(atom, owner, res, kf) ==
    [pos |-> atom.pos, rad |-> get_atom_radius(atom.element, res) * kf, owner |-> owner]

\* Body of the amino_acids loop for one key: the records it appends
\* (<<>> when the inner try fails).
ResidueRecords(res_key, res, kf) ==
    IF Len(res_key) < 3 THEN <<>>
    ELSE LET p == parse_residue_key(res_key)
             residue == SelectResidue(p[1], p[2])
             Heavy(a) == a.element # <<"H">>
             kept == SelectSeq(residue, Heavy)
         IN [i \in DOMAIN kept |-> AtomRecord(kept[i], res_key, res, kf)]

\* Body of the atoms loop for one key.
AtomKeyRecords(atom_key, res, kf) ==
    IF Len(atom_key) < 4 THEN <<>>
    ELSE LET p == parse_atom_key(atom_key)
             sel == SelectAtoms(p[1], p[2], p[4], p[5])
         IN IF sel = <<>> THEN <<>> ELSE <<AtomRecord(sel[1], atom_key, res, kf)>>

\* The loop over omission_map.items(): acc is [records, owner_schedules,
\* max_map_id_seen, raised]; an exception outside the inner try ends the loop.
RECURSIVE BuildLoop(_, _, _, _, _)
BuildLoop(entries, md, res, kf, acc) ==
    IF entries = <<>> \/ acc.raised THEN acc
    ELSE LET key == entries[1][1]
             map_ids == entries[1][2]
             scheds == (key :> map_ids) @@ acc.owner_schedules
         IN IF map_ids = <<>>
            THEN [acc EXCEPT !.owner_schedules = scheds, !.raised = TRUE]
            ELSE BuildLoop(Tail(entries), md, res, kf,
                     [records |-> acc.records \o
                                    (IF md = "amino_acids" THEN ResidueRecords(key, res, kf)
                                     ELSE AtomKeyRecords(key, res, kf)),
                      owner_schedules |-> scheds,
                      max_map_id_seen |-> update_max_map(map_ids, acc.max_map_id_seen),
                      raised |-> FALSE])

\* np.min for np.max.
min_radius(atom_radii) == CHOOSE x \in Range(atom_radii) : \A y \in Range(atom_radii) : x <= y

\* np.max(atom_radii)
max_radius(atom_radii) == SeqMax(atom_radii)

build_spatial_index(omap, res, kf, md) ==
    LET acc == BuildLoop(omap, md, res, kf,
                   [records |-> <<>>, owner_schedules |-> <<>>,
                    max_map_id_seen |-> 0, raised |-> FALSE])
        recs == acc.records
    IN IF acc.raised THEN None
       ELSE IF recs = <<>> THEN None
       ELSE Some([positions |-> [i \in DOMAIN recs |-> recs[i].pos],
                  radii |-> [i \in DOMAIN recs |-> recs[i].rad],
                  atom_to_owner |-> [i \in DOMAIN recs |-> recs[i].owner],
                  owner_schedules |-> acc.owner_schedules,
                  max_radius |-> max_radius([i \in DOMAIN recs |-> recs[i].rad]),
                  max_map_id_seen |-> acc.max_map_id_seen])

DistSq(p, q) ==
    (p[1] - q[1]) * (p[1] - q[1]) + (p[2] - q[2]) * (p[2] - q[2]) + (p[3] - q[3]) * (p[3] - q[3])

\* Euclidean distance from p to q is at most r.
Within(p, q, r) == r >= 0 /\ DistSq(p, q) <= r * r

\* KDTree.query_ball_point(grid_coords, r): the indices of the points within r.
query_ball_point(positions, grid_coords, r) ==
    {i \in DOMAIN positions : Within(grid_coords, positions[i], r)}

\* The owners that pass the exact filter.
ActiveOwners(idx, grid_coords) ==
    LET indices == query_ball_point(idx.positions, grid_coords, idx.max_radius)
    IN {idx.atom_to_owner[i] : i \in {j \in indices : Within(grid_coords, idx.positions[j], idx.radii[j])}}

\* owner_schedules.get(owner_key, [])
ScheduleOf(idx, owner_key) ==
    IF owner_key \in DOMAIN idx.owner_schedules THEN idx.owner_schedules[owner_key] ELSE <<>>

\* StatusMatrix without the check 0 <= map_id: a negative index then counts
\* from the last row, as numpy indexing does.
StatusMatrixNoLowerCheck(idx, active_owners_list, n_maps) ==
    [row \in 1..n_maps |->
        [col \in DOMAIN active_owners_list |->
            IF \E map_id \in Range(ScheduleOf(idx, active_owners_list[col])) :
                   /\ map_id < n_maps /\ -n_maps <= map_id
                   /\ (IF map_id < 0 THEN map_id + n_maps ELSE map_id) = row - 1
            THEN 0 ELSE 1]]

\* StatusMatrix with the flags exchanged: 0 for present, 1 for omitted.
StatusMatrixFlagsExchanged(idx, active_owners_list, n_maps) ==
    [row \in 1..n_maps |->
        [col \in DOMAIN active_owners_list |->
            IF \E map_id \in Range(ScheduleOf(idx, active_owners_list[col])) :
                   0 <= map_id /\ map_id < n_maps /\ map_id = row - 1
            THEN 1 ELSE 0]]

\* The status matrix for the owners in the order active_owners_list: row m + 1
\* is ensemble member m, entries are 1 (present) or 0 (omitted).
StatusMatrix(idx, active_owners_list, n_maps) ==
    [row \in 1..n_maps |->
        [col \in DOMAIN active_owners_list |->
            IF \E map_id \in Range(ScheduleOf(idx, active_owners_list[col])) :
                   0 <= map_id /\ map_id < n_maps /\ map_id = row - 1
            THEN 0 ELSE 1]]

\* query_voxel_ownership for one iteration order of the set of active owners
\* (list(set) fixes no order): None, or the owners of the columns with the matrix.
query_voxel_ownership(index, grid_coords, n_maps, order) ==
    IF index = None THEN None
    ELSE LET idx == Get(index)
             indices == query_ball_point(idx.positions, grid_coords, idx.max_radius)
         IN IF indices = {} THEN None
            ELSE IF ActiveOwners(idx, grid_coords) = {} THEN None
            ELSE Some([owners |-> order, status |-> StatusMatrix(idx, order, n_maps)])

\* OwnerOrders without the set: one entry per atom that passes the exact
\* filter, in index order.
OwnerOrdersPerAtom(index, grid_coords) ==
    IF index = None THEN {<<>>}
    ELSE LET idx == Get(index)
             Passes(i) == /\ Within(grid_coords, idx.positions[i], idx.max_radius)
                          /\ Within(grid_coords, idx.positions[i], idx.radii[i])
             hits == SelectSeq([i \in DOMAIN idx.positions |-> i], Passes)
         IN {[h \in DOMAIN hits |-> idx.atom_to_owner[hits[h]]]}

\* The iteration orders list(unique_active_owners) can take at a point.
OwnerOrders(index, grid_coords) ==
    IF index = None THEN {<<>>} ELSE Orderings(ActiveOwners(Get(index), grid_coords))

---------------------------------------------------------------------------
(* quantify/aggregator.py *)

\* status[:, j] == 1.0 and status[:, j] == 0.0 as boolean masks over the members.
ColumnIs(status, j, v) == [m \in DOMAIN status |-> status[m][j] = v]

\* OwnerBias with the difference taken the other way round.
OwnerBiasOmittedMinusPresent(values, status, j) ==
    LET present == ColumnIs(status, j, 1)
        omitted == ColumnIs(status, j, 0)
    IN IF (\E m \in DOMAIN status : present[m]) /\ (\E m \in DOMAIN status : omitted[m])
       THEN Mean32(Masked(values, omitted)) - Mean32(Masked(values, present))
       ELSE 0

\* The body of the loop over the owner columns: the bias of column j (float32
\* means of float32 values; their difference is exact).
OwnerBias(values, status, j) ==
    LET present == ColumnIs(status, j, 1)
        omitted == ColumnIs(status, j, 0)
        has_present == \E m \in DOMAIN status : present[m]
        has_omitted == \E m \in DOMAIN status : omitted[m]
    IN IF has_present /\ has_omitted
       THEN Mean32(Masked(values, present)) - Mean32(Masked(values, omitted))
       ELSE 0

\* np.dot(status, biases)
Dot(status, biases) ==
    [m \in DOMAIN status |-> SumSeq([j \in DOMAIN biases |-> status[m][j] * biases[j]])]

\* solve_voxel with the population standard deviation (numpy's default
\* ddof=0: denominator n) in the branch without a status.
solve_voxel_ddof0(values, status) ==
    IF status = None
    THEN [mean |-> Rat(Mean32(values), 1),
          std |-> SqrtOf(SumSeq([i \in DOMAIN values |->
                             (values[i] - Mean32(values)) * (values[i] - Mean32(values))]),
                         Len(values)),
          dist |-> values]
    ELSE LET st == Get(status)
             biases == [j \in 1..Len(st[1]) |-> OwnerBias(values, st, j)]
             cleaned == [m \in DOMAIN values |-> values[m] - Dot(st, biases)[m]]
         IN [mean |-> Mean64(cleaned), std |-> Std64(cleaned), dist |-> cleaned]

\* solve_voxel(values, status): status is None or Some(matrix); the result is
\* [mean, std, dist] with mean a rational number of quanta.
solve_voxel(values, status) ==
    IF status = None
    THEN [mean |-> Rat(Mean32(values), 1), std |-> Std32(values), dist |-> values]
    ELSE LET st == Get(status)
             n_owners == Len(st[1])
             biases == [j \in 1..n_owners |-> OwnerBias(values, st, j)]
             total_bias_vector == Dot(st, biases)
             cleaned == [m \in DOMAIN values |-> values[m] - total_bias_vector[m]]
         IN [mean |-> Mean64(cleaned), std |-> Std64(cleaned), dist |-> cleaned]

\* The exponents e of the value quantum 2^e that an ensemble may have:
\* "unit" is e = -23 (values in [1, 2)), "micro" is e = -43 (values near 1.4e-6).
Scales == {"unit", "micro"}

\* The floor 1e-12 of aggregate_ensemble, squared, in quanta squared:
\* 10^-24 * 2^46 and 10^-24 * 2^86.  Each is given by its continued-fraction
\* convergent from below (0/1 and 10213/132; the next convergents have
\* denominators 14210854715 and 167), which no rational with a denominator
\* below 299 separates from the exact value.
FloorSq(scale) == IF scale = "unit" THEN Rat(0, 1) ELSE Rat(10213, 132)

\* n > 1e-12 for a standard deviation n: false for NaN.
AboveFloor(n, scale) == n.tag = "sqrt" /\ RatLess(FloorSq(scale), n)

SNRZero == [tag |-> "zero", s |-> <<>>, n |-> <<>>]
SNRRatio(s, n) == [tag |-> "ratio", s |-> <<s>>, n |-> <<n>>]

\* SnrOf without the floor: the quotient whenever n is not NaN.
SnrOfNoFloor(s, n, scale) == IF n.tag = "sqrt" THEN SNRRatio(s, n) ELSE SNRZero

\* s / n if n > 1e-12 else 0.0
SnrOf(s, n, scale) == IF AboveFloor(n, scale) THEN SNRRatio(s, n) ELSE SNRZero

\* A float64 mean stored into a float32 grid.
Cast32(r) == Div32(r.num, r.den)

\* The shape (nx, ny, nz) of the grids and the spacing of the cells along each
\* axis in 1/1000 Angstrom (an orthogonal cell).
GridShape == <<3, 2, 1>>
GridStep == <<2100, 2100, 2100>>

\* The cells (i, j, k) in the order of the triple loop.
CellSeq ==
    [c \in 1..(GridShape[1] * GridShape[2] * GridShape[3]) |->
        << (c - 1) \div (GridShape[2] * GridShape[3]),
           ((c - 1) \div GridShape[3]) % GridShape[2],
           (c - 1) % GridShape[3] >>]

Cells == DOMAIN CellSeq

\* ref_grid.get_position(i, j, k)
get_position(c) ==
    <<CellSeq[c][1] * GridStep[1], CellSeq[c][2] * GridStep[2], CellSeq[c][3] * GridStep[3]>>

\* AggregateCell reading the value vector of the cell before c in the loop
\* (of c itself for the first cell).
AggregateCellOffByOne(ens, index, c, order) ==
    LET n_maps == Len(ens.members)
        vals == [m \in 1..n_maps |-> ens.members[m][IF c = 1 THEN 1 ELSE c - 1]]
        status == query_voxel_ownership(index, get_position(c), n_maps, order)
        r == solve_voxel(vals, IF status = None THEN None ELSE Some(Get(status).status))
    IN [sig |-> Cast32(r.mean), nos |-> r.std,
        snr |-> SnrOf(r.mean, r.std, ens.scale), dist |-> r.dist]

\* The body of the triple loop for cell c: the four values written at c, for
\* one iteration order of the active owners at c.
AggregateCell(ens, index, c, order) ==
    LET n_maps == Len(ens.members)
        vals == [m \in 1..n_maps |-> ens.members[m][c]]
        status == query_voxel_ownership(index, get_position(c), n_maps, order)
        r == solve_voxel(vals, IF status = None THEN None ELSE Some(Get(status).status))
    IN [sig |-> Cast32(r.mean), nos |-> r.std,
        snr |-> SnrOf(r.mean, r.std, ens.scale), dist |-> r.dist]

\* aggregate_ensemble for one choice of the iteration orders, orders[c] at cell
\* c: what the triple loop writes, per cell.
aggregate_ensemble(ens, index, orders) ==
    [c \in Cells |-> AggregateCell(ens, index, c, orders[c])]

\* The four returned arrays.
sig_map(out) == [c \in Cells |-> out[c].sig]
nos_map(out) == [c \in Cells |-> out[c].nos]
snr_map(out) == [c \in Cells |-> out[c].snr]
distributions(out) == [c \in Cells |-> out[c].dist]

\* Every assignment of an iteration order to the cells 1..c.
RECURSIVE OrderChoices(_, _)
OrderChoices(index, c) ==
    IF c = 0 THEN {<<>>}
    ELSE {rest \o <<o>> : rest \in OrderChoices(index, c - 1),
                          o \in OwnerOrders(index, get_position(c))}

---------------------------------------------------------------------------
(* quantify/statistical_model.py *)

\* A grid is a function on the cells 1..nx*ny*nz in the order of the triple
\* loop; its shape is its domain.  A trial coordinate is a fractional
\* coordinate in halves of the unit cell (gemmi.Fractional(*frac)); the grids
\* are periodic, so a coordinate is wrapped into the cell first.  Every
\* coordinate drawn is a grid node, the node (0, 0, 0) or (0, 1, 0) of a grid
\* with two cells along y, where interpolation returns the node's value.
Wrap(frac) == <<frac[1] % 2, frac[2] % 2, frac[3] % 2>>
NodeOf(frac) == 1 + Wrap(frac)[2]

NaN == [tag |-> "nan", x |-> <<>>]

\* grid.normalize(): (x - mean) / rms.  The normalised value of x is kept as
\* the term z(x); a constant grid has rms 0 and every value becomes NaN.
normalize(grid) ==
    IF \A c \in DOMAIN grid : grid[c] = grid[1]
    THEN [c \in DOMAIN grid |-> NaN]
    ELSE [c \in DOMAIN grid |-> [tag |-> "z", x |-> <<grid[c]>>]]

\* grid.interpolate_value(pos) at a node.
interpolate_value(grid, frac) == grid[NodeOf(frac)]

\* protein_mask.interpolate_value(pos), in halves: 0, 1 (between a masked and
\* an unmasked node) or 2 (the value 1).
mask_value(msk, frac) == msk.value[Wrap(frac)]

\* One trial of the loop of sample_null_distribution without the mask test.
TrialKeepAll(samples, grid, msk, frac) == Append(samples, interpolate_value(normalize(grid), frac))

\* One trial of the loop of sample_null_distribution: the samples after it.
Trial(samples, grid, msk, frac) ==
    IF mask_value(msk, frac) = 2
    THEN Append(samples, interpolate_value(normalize(grid), frac))
    ELSE samples

PZero == [tag |-> "zero", x |-> <<>>, null |-> <<>>]

\* t.fit(null_snr) raises on data that is not finite.
FitRaises(null_snr) == \E i \in DOMAIN null_snr : null_snr[i] = NaN

\* t.sf of the fitted distribution at every cell, as the term sf(x; samples).
SurvivalFunction(null_snr, full_snr_map) ==
    [c \in DOMAIN full_snr_map |-> [tag |-> "sf", x |-> <<full_snr_map[c]>>, null |-> null_snr]]

\* fit_t_test without the test for an empty sample list: t.fit raises on it.
fit_t_test_unguarded(null_snr, full_snr_map) ==
    IF Len(null_snr) = 0 \/ FitRaises(null_snr) THEN [raised |-> TRUE, p |-> <<>>]
    ELSE [raised |-> FALSE, p |-> SurvivalFunction(null_snr, full_snr_map)]

\* fit_t_test: [raised, p], p the returned grid.
fit_t_test(null_snr, full_snr_map) ==
    IF Len(null_snr) = 0 THEN [raised |-> FALSE, p |-> [c \in DOMAIN full_snr_map |-> PZero]]
    ELSE IF FitRaises(null_snr) THEN [raised |-> TRUE, p |-> <<>>]
    ELSE [raised |-> FALSE, p |-> SurvivalFunction(null_snr, full_snr_map)]

---------------------------------------------------------------------------
(* quantify/utils.py, quantify/api.py *)

\* Python's sorted() on a list of integers.
RECURSIVE SortedList(_)
SortedList(s) ==
    IF s = <<>> THEN <<>>
    ELSE LET m == CHOOSE i \in DOMAIN s : \A j \in DOMAIN s : s[i] <= s[j]
         IN <<s[m]>> \o SortedList([i \in 1..(Len(s) - 1) |-> IF i < m THEN s[i] ELSE s[i + 1]])

\* The loop of infer_omission_mode: seen maps a residue id to the set of
\* sorted schedules met for it so far.
RECURSIVE InferLoop(_, _)
InferLoop(entries, seen) ==
    IF entries = <<>> THEN "amino_acids"
    ELSE LET parts == entries[1][1]
             res_id == <<parts[1], parts[2]>>
             had == IF res_id \in DOMAIN seen THEN seen[res_id] ELSE {}
             now == had \cup {SortedList(entries[1][2])}
         IN IF Len(parts) < 4 THEN InferLoop(Tail(entries), seen)
            ELSE IF Cardinality(now) > 1 THEN "atoms"
            ELSE InferLoop(Tail(entries), (res_id :> now) @@ seen)

infer_omission_mode(json_data) == InferLoop(json_data, <<>>)

\* A map file of the results directory: absent, or holding a grid.
Missing == [exists |-> FALSE, grid |-> <<>>]
MapFile(g) == [exists |-> TRUE, grid |-> g]

Message(level, text) == [level |-> level, text |-> text]

\* The warnings load_ensemble prints: one per missing map.
RECURSIVE MissingWarnings(_)
MissingWarnings(maps) ==
    IF maps = <<>> THEN <<>>
    ELSE (IF ~maps[1].exists THEN <<Message("warning", "Missing map")>> ELSE <<>>)
         \o MissingWarnings(Tail(maps))

\* The grids load_ensemble appends: those of the maps that exist, in order.
RECURSIVE PresentMaps(_)
PresentMaps(maps) ==
    IF maps = <<>> THEN <<>>
    ELSE (IF ~maps[1].exists THEN <<>> ELSE <<maps[1].grid>>) \o PresentMaps(Tail(maps))

\* load_ensemble with an np.stack that keeps the grids of the first shape.
load_ensemble_lenient(maps) ==
    LET present == PresentMaps(maps)
        SameShape(g) == DOMAIN g = DOMAIN present[1]
    IN [raised |-> present = <<>>,
        data |-> IF present = <<>> THEN <<>> ELSE SelectSeq(present, SameShape),
        printed |-> MissingWarnings(maps)]

\* load_ensemble: np.stack raises on an empty list and on grids of different
\* shapes.
load_ensemble(maps) ==
    LET present == PresentMaps(maps)
        stacks == /\ present # <<>>
                  /\ \A i \in DOMAIN present : DOMAIN present[i] = DOMAIN present[1]
    IN [raised |-> ~stacks,
        data |-> IF stacks THEN present ELSE <<>>,
        printed |-> MissingWarnings(maps)]

\* The test of the built index in run_quantification left out.
AfterBuildNoAbort(index) == "indexed"

\* if not spatial_index: print the error and return.
AfterBuild(index) == IF index = None THEN "returned" ELSE "indexed"

\* The calls of run_quantification, in program order.
StageOrder ==
    <<"build_spatial_index", "load_ensemble", "aggregate_ensemble",
      "sample_null_distribution", "fit_t_test">>

\* The files written by the save_map and np.save calls after the aggregation.
AggregateFiles == {"mean", "std", "snr", "distributions"}

---------------------------------------------------------------------------
(* debias/omission_sampler.py *)

\* A structure is the sequence of its residues over all models and chains,
\* in file order; het is the het_flag ("A" for ATOM records, "H" for HETATM)
\* and atoms the sequence of <<atom name, altloc>>.  An ID is a tuple
\* <<chain, number, residue name>> or <<chain, number, residue name, atom,
\* altloc>> with the number an integer.
Res(chain, num, name, het, atoms) ==
    [chain |-> chain, num |-> num, name |-> name, het |-> het, atoms |-> atoms]

\* The items of a list, each kept at its first occurrence (the seen set).
RECURSIVE FirstSeen(_, _)
FirstSeen(items, seen) ==
    IF items = <<>> THEN <<>>
    ELSE IF items[1] \in seen THEN FirstSeen(Tail(items), seen)
    ELSE <<items[1]>> \o FirstSeen(Tail(items), seen \cup {items[1]})

\* The IDs one residue contributes, before the seen test.
ResidueIds(r, md) ==
    IF r.het # "A" THEN <<>>
    ELSE IF md = "amino_acids" THEN << <<r.chain, r.num, r.name>> >>
    ELSE [a \in DOMAIN r.atoms |-> <<r.chain, r.num, r.name, r.atoms[a][1], r.atoms[a][2]>>]

RECURSIVE AllResidueIds(_, _)
AllResidueIds(structure, md) ==
    IF structure = <<>> THEN <<>>
    ELSE ResidueIds(structure[1], md) \o AllResidueIds(Tail(structure), md)

extract_ids(structure, md) == FirstSeen(AllResidueIds(structure, md), {})

\* int(p) on the tokens a selector may carry at position 1; int() raises
\* ValueError on any other token.
NumeralValue ==
    ("1" :> 1) @@ ("01" :> 1) @@ ("2" :> 2) @@ ("3" :> 3) @@ ("4" :> 4) @@ ("99999" :> 99999)

\* A selector is the token list s.strip().split() of one comma-separated part
\* of always_omit.  tuple([int(p) if i == 1 else p ...]).
SelectorRaises(sel) == Len(sel) >= 2 /\ sel[2] \notin DOMAIN NumeralValue
FormatSelector(sel) == [i \in DOMAIN sel |-> IF i = 2 THEN NumeralValue[sel[i]] ELSE sel[i]]

\* _apply_always_omit_selectors that keeps the selectors absent from all_ids.
apply_always_omit_selectors_unfiltered(all_ids, always_omit) ==
    IF always_omit = None THEN [raised |-> FALSE, selectors_in |-> <<>>, remaining |-> all_ids]
    ELSE IF \E i \in DOMAIN Get(always_omit) : SelectorRaises(Get(always_omit)[i])
    THEN [raised |-> TRUE, selectors_in |-> <<>>, remaining |-> <<>>]
    ELSE LET formated == [i \in DOMAIN Get(always_omit) |-> FormatSelector(Get(always_omit)[i])]
             NotSelected(x) == x \notin Range(formated)
         IN [raised |-> FALSE,
             selectors_in |-> formated,
             remaining |-> SelectSeq(all_ids, NotSelected)]

\* _apply_always_omit_selectors: always_omit is None (or "") or <<selectors>>.
apply_always_omit_selectors(all_ids, always_omit) ==
    IF always_omit = None THEN [raised |-> FALSE, selectors_in |-> <<>>, remaining |-> all_ids]
    ELSE IF \E i \in DOMAIN Get(always_omit) : SelectorRaises(Get(always_omit)[i])
    THEN [raised |-> TRUE, selectors_in |-> <<>>, remaining |-> <<>>]
    ELSE LET formated == [i \in DOMAIN Get(always_omit) |-> FormatSelector(Get(always_omit)[i])]
             InStructure(x) == x \in Range(all_ids)
             NotSelected(x) == x \notin Range(formated)
         IN [raised |-> FALSE,
             selectors_in |-> SelectSeq(formated, InStructure),
             remaining |-> SelectSeq(all_ids, NotSelected)]

\* A fraction is <<num, den>> with den a power of two, so that the products
\* and differences the sampler forms are exact in binary64.
FracLeq(f, g) == f[1] * g[2] <= g[1] * f[2]
OneMinus(f) == <<f[2] - f[1], f[2]>>
CeilDiv(a, b) == (a + b - 1) \div b

\* max(1, round(n * f)); Python's round is to nearest, ties to even.
ChunkSize(n, f) ==
    LET r == RoundHalfEven(n * f[1], f[2])
    IN IF r > 1 THEN r ELSE 1

\* permuted[i : i + size] for i in range(0, n, size), without a last chunk
\* that is shorter than size.
RECURSIVE ChunksFullOnly(_, _)
ChunksFullOnly(permuted, size) ==
    IF Len(permuted) < size THEN <<>>
    ELSE <<SubSeq(permuted, 1, size)>> \o ChunksFullOnly(SubSeq(permuted, size + 1, Len(permuted)), size)

\* permuted[i : i + size] for i in range(0, n, size).
RECURSIVE Chunks(_, _)
Chunks(permuted, size) ==
    IF permuted = <<>> THEN <<>>
    ELSE IF Len(permuted) <= size THEN <<permuted>>
    ELSE <<SubSeq(permuted, 1, size)>> \o Chunks(SubSeq(permuted, size + 1, Len(permuted)), size)

\* The selections one iteration yields for the shuffle permuted.
IterationSelections(always_omit_in, remaining, permuted, fraction) ==
    IF FracLeq(fraction, <<1, 2>>)
    THEN LET chunks == Chunks(permuted, ChunkSize(Len(remaining), fraction))
         IN [i \in DOMAIN chunks |-> always_omit_in \o chunks[i]]
    ELSE LET chunks == Chunks(permuted, ChunkSize(Len(remaining), OneMinus(fraction)))
             Complement(i) == LET Kept(x) == x \notin Range(chunks[i])
                              IN SelectSeq(remaining, Kept)
         IN [i \in DOMAIN chunks |-> always_omit_in \o Complement(i)]

\* _validate_sampler_inputs that accepts the fractions 0 and 1.
validate_sampler_inputs_closed(structure, omit_fraction, n_iterations) ==
    IF structure = None THEN "IOError"
    ELSE IF ~(0 <= omit_fraction[1] /\ omit_fraction[1] <= omit_fraction[2]) THEN "ValueError"
    ELSE IF n_iterations # None /\ Get(n_iterations) < 1 THEN "ValueError"
    ELSE "ok"

\* _validate_sampler_inputs: "ok" or the exception raised.  The structure is
\* None when no file is at structure_path.
validate_sampler_inputs(structure, omit_fraction, n_iterations) ==
    IF structure = None THEN "IOError"
    ELSE IF ~(0 < omit_fraction[1] /\ omit_fraction[1] < omit_fraction[2]) THEN "ValueError"
    ELSE IF n_iterations # None /\ Get(n_iterations) < 1 THEN "ValueError"
    ELSE "ok"

TARGET_MAP_COUNT == 50

\* _calculate_iterations
calculate_iterations(n_iterations, omit_fraction) ==
    IF n_iterations # None THEN Get(n_iterations)
    ELSE LET other == OneMinus(omit_fraction)
             fraction_to_cover == IF FracLeq(omit_fraction, other) THEN omit_fraction ELSE other
             n_batches_per_iteration == CeilDiv(fraction_to_cover[2], fraction_to_cover[1])
         IN CeilDiv(TARGET_MAP_COUNT, n_batches_per_iteration)

\* The part of sample_ids before the shuffles (lines 155-179) for valid
\* arguments: [raised, done, yielded, always_omit_in, remaining].
SamplerStart(args) ==
    LET all_ids == extract_ids(Get(args.structure), args.mode)
        sel == apply_always_omit_selectors(all_ids, args.always_omit)
        cover == IF FracLeq(args.fraction, <<1, 2>>) THEN args.fraction ELSE OneMinus(args.fraction)
        n_batches == CeilDiv(cover[2], cover[1])
        final_iterations == calculate_iterations(args.n_iterations, args.fraction)
    IN IF Len(all_ids) = 0
       THEN [raised |-> FALSE, done |-> TRUE, yielded |-> << <<>> >>,
             always_omit_in |-> <<>>, remaining |-> <<>>]
       ELSE IF sel.raised
       THEN [raised |-> TRUE, done |-> TRUE, yielded |-> <<>>,
             always_omit_in |-> <<>>, remaining |-> <<>>]
       ELSE IF Len(sel.remaining) = 0
       THEN [raised |-> FALSE, done |-> TRUE,
             yielded |-> [i \in 1..(final_iterations * n_batches) |-> sel.selectors_in],
             always_omit_in |-> sel.selectors_in, remaining |-> <<>>]
       ELSE [raised |-> FALSE, done |-> FALSE, yielded |-> <<>>,
             always_omit_in |-> sel.selectors_in, remaining |-> sel.remaining]

---------------------------------------------------------------------------
(* debias/api.py *)

\* A path of the configuration: None, or <<[text, exists]>> with text the
\* string and exists whether a file is at it.  A path is used when it is
\* truthy: neither None nor the empty string.
Given(path) == path # None /\ Get(path).text # ""
Exists(path) == Get(path).exists

\* _config_validator with has_manual true when either manual path is given.
config_validator_either(debias) ==
    LET has_screening == Given(debias.screening_path)
        has_manual == Given(debias.structure_path) \/ Given(debias.reflections_path)
    IN IF ~(has_screening \/ has_manual) THEN "ValueError"
       ELSE IF has_manual /\ ~(Given(debias.structure_path) /\ Exists(debias.structure_path))
       THEN "FileNotFoundError"
       ELSE IF has_manual /\ ~(Given(debias.reflections_path) /\ Exists(debias.reflections_path))
       THEN "FileNotFoundError"
       ELSE IF has_screening /\ ~Exists(debias.screening_path) THEN "FileNotFoundError"
       ELSE "returned"

\* _config_validator: "returned" or the exception raised.
config_validator(debias) ==
    LET has_screening == Given(debias.screening_path)
        has_manual == Given(debias.structure_path) /\ Given(debias.reflections_path)
    IN IF ~(has_screening \/ has_manual) THEN "ValueError"
       ELSE IF has_manual /\ ~Exists(debias.structure_path) THEN "FileNotFoundError"
       ELSE IF has_manual /\ ~Exists(debias.reflections_path) THEN "FileNotFoundError"
       ELSE IF has_screening /\ ~Exists(debias.screening_path) THEN "FileNotFoundError"
       ELSE "returned"

---------------------------------------------------------------------------
(* debias/phenix_param_parser.py *)

\* A string is the sequence of its characters, a text the sequence of its
\* lines (file_content.splitlines()).  A parsed value is [type, v]: "none",
\* "bool", "int" and "float" carry the text str() gives the value, "str" its
\* characters, "list" a sequence of scalar values and "dict" a sequence of
\* [key, val] in insertion order.
TAB == "\t"
DQ == "\""
SQ == "'"
WhiteSpace == {" ", TAB}
Digits == {"0", "1", "2", "3", "4", "5", "6", "7", "8", "9"}
KeyChars == Digits \cup {"a", "b", "e", "k", "n", "o", "r", "s", "t", "u", "x", "N", "T", "_", "-", "."}

RECURSIVE LStripWs(_)
LStripWs(s) == IF s # <<>> /\ s[1] \in WhiteSpace THEN LStripWs(Tail(s)) ELSE s

RECURSIVE RStripWs(_)
RStripWs(s) ==
    IF s # <<>> /\ s[Len(s)] \in WhiteSpace THEN RStripWs(SubSeq(s, 1, Len(s) - 1)) ELSE s

\* str.strip()
StripWs(s) == RStripWs(LStripWs(s))

\* The non-empty parts of re.split(r"\s+", s); cur is the part being read.
RECURSIVE SplitWs(_, _)
SplitWs(s, cur) ==
    LET part == IF cur = <<>> THEN <<>> ELSE <<cur>>
    IN IF s = <<>> THEN part
       ELSE IF s[1] \in WhiteSpace THEN part \o SplitWs(Tail(s), <<>>)
       ELSE SplitWs(Tail(s), Append(cur, s[1]))

\* _QUOTED_STR_RE: the same quote character first and last.
Quoted(raw) == Len(raw) >= 2 /\ raw[1] \in {DQ, SQ} /\ raw[Len(raw)] = raw[1]

\* _tokenize_line_value
tokenize_line_value(raw) ==
    LET r == StripWs(raw)
    IN IF r = <<>> THEN <<>>
       ELSE IF Quoted(r) THEN <<SubSeq(r, 2, Len(r) - 1)>>
       ELSE SplitWs(r, <<>>)

LowerChar(c) == CASE c = "N" -> "n" [] c = "T" -> "t" [] c = "F" -> "f" [] OTHER -> c
Lower(s) == [i \in DOMAIN s |-> LowerChar(s[i])]

AllDigits(s) == s # <<>> /\ \A i \in DOMAIN s : s[i] \in Digits
Unsigned(token) == IF token # <<>> /\ token[1] = "-" THEN Tail(token) ELSE token
Negative(token) == token # <<>> /\ token[1] = "-"

\* _INT_RE and _FLOAT_RE
IsInt(token) == AllDigits(Unsigned(token))
DotAt(s) == {i \in DOMAIN s : s[i] = "."}
IsFloat(token) ==
    LET u == Unsigned(token)
    IN \E i \in DotAt(u) : AllDigits(SubSeq(u, 1, i - 1)) /\ AllDigits(SubSeq(u, i + 1, Len(u)))

\* Digits without leading zeros, and without trailing zeros; one digit stays.
RECURSIVE DropLeadingZeros(_)
DropLeadingZeros(d) == IF Len(d) > 1 /\ d[1] = "0" THEN DropLeadingZeros(Tail(d)) ELSE d

RECURSIVE DropTrailingZeros(_)
DropTrailingZeros(d) ==
    IF Len(d) > 1 /\ d[Len(d)] = "0" THEN DropTrailingZeros(SubSeq(d, 1, Len(d) - 1)) ELSE d

\* str(int(token))
IntText(token) ==
    LET d == DropLeadingZeros(Unsigned(token))
    IN IF Negative(token) /\ d # <<"0">> THEN <<"-">> \o d ELSE d

\* The number of zeros a digit string starts with.
RECURSIVE LeadingZeros(_)
LeadingZeros(d) == IF d # <<>> /\ d[1] = "0" THEN 1 + LeadingZeros(Tail(d)) ELSE 0

DigitChar(n) == <<"0", "1", "2", "3", "4", "5", "6", "7", "8", "9">>[n + 1]

\* str(float(token)) for a token of fewer than 16 digits: positional with at
\* least one digit after the point, in exponent form below 0.0001.
FloatText(token) ==
    LET u == Unsigned(token)
        i == CHOOSE j \in DotAt(u) : TRUE
        whole == DropLeadingZeros(SubSeq(u, 1, i - 1))
        frac == DropTrailingZeros(SubSeq(u, i + 1, Len(u)))
        z == LeadingZeros(frac)
        sign == IF Negative(token) THEN <<"-">> ELSE <<>>
        mant == SubSeq(frac, z + 1, Len(frac))
    IN IF whole = <<"0">> /\ z >= 4 /\ z < Len(frac)
       THEN sign \o <<mant[1]>> \o (IF Len(mant) > 1 THEN <<".">> \o Tail(mant) ELSE <<>>)
                 \o <<"e", "-", DigitChar((z + 1) \div 10), DigitChar((z + 1) % 10)>>
       ELSE sign \o whole \o <<".">> \o frac

\* _parse_scalar_token
parse_scalar_token(token) ==
    IF Lower(token) = <<"n", "o", "n", "e">> THEN [type |-> "none", v |-> <<"N", "o", "n", "e">>]
    ELSE IF Lower(token) = <<"t", "r", "u", "e">> THEN [type |-> "bool", v |-> <<"T", "r", "u", "e">>]
    ELSE IF Lower(token) = <<"f", "a", "l", "s", "e">>
    THEN [type |-> "bool", v |-> <<"F", "a", "l", "s", "e">>]
    ELSE IF IsInt(token) THEN [type |-> "int", v |-> IntText(token)]
    ELSE IF IsFloat(token) THEN [type |-> "float", v |-> FloatText(token)]
    ELSE [type |-> "str", v |-> token]

EmptyDict == [type |-> "dict", v |-> <<>>]

HasKey(d, key) == \E i \in DOMAIN d.v : d.v[i].key = key
ValueOf(d, key) == d.v[CHOOSE i \in DOMAIN d.v : d.v[i].key = key].val

\* d[key] = val: an existing key keeps its place.
SetKey(d, key, val) ==
    IF HasKey(d, key)
    THEN [d EXCEPT !.v = [i \in DOMAIN d.v |-> IF d.v[i].key = key THEN [key |-> key, val |-> val]
                                                   ELSE d.v[i]]]
    ELSE [d EXCEPT !.v = Append(d.v, [key |-> key, val |-> val])]

\* stack[-1][key] = val, with stack[-1] the block reached from the root by
\* the keys of path.
RECURSIVE SetAt(_, _, _, _)
SetAt(d, path, key, val) ==
    IF path = <<>> THEN SetKey(d, key, val)
    ELSE SetKey(d, path[1], SetAt(ValueOf(d, path[1]), Tail(path), key, val))

\* The longest prefix of key characters.
RECURSIVE KeyPrefix(_)
KeyPrefix(s) == IF s # <<>> /\ s[1] \in KeyChars THEN <<s[1]>> \o KeyPrefix(Tail(s)) ELSE <<>>

\* _BLOCK_START_RE on a stripped line: a key, white space, "{".
IsBlockStart(line) ==
    /\ line # <<>> /\ line[Len(line)] = "{"
    /\ LET head == RStripWs(SubSeq(line, 1, Len(line) - 1))
       IN head # <<>> /\ KeyPrefix(head) = head
BlockKey(line) == RStripWs(SubSeq(line, 1, Len(line) - 1))

\* _KEY_VALUE_RE on a stripped line: a key, white space, "=", the value.
AfterKey(line) == LStripWs(SubSeq(line, Len(KeyPrefix(line)) + 1, Len(line)))
IsKeyValue(line) == KeyPrefix(line) # <<>> /\ AfterKey(line) # <<>> /\ AfterKey(line)[1] = "="
RawValue(line) == StripWs(Tail(AfterKey(line)))

\* The value of a key = value line (lines 98-105).
ParsedValue(tokens) ==
    IF Len(tokens) = 0 THEN [type |-> "str", v |-> <<>>]
    ELSE IF Len(tokens) = 1 THEN parse_scalar_token(tokens[1])
    ELSE [type |-> "list", v |-> [i \in DOMAIN tokens |-> parse_scalar_token(tokens[i])]]

\* The loop of parse_parameters over the lines from i on; root is stack[0]
\* and path the keys of the open blocks.
RECURSIVE ParseLoop(_, _, _, _)
ParseLoop(lines, i, root, path) ==
    IF i > Len(lines) THEN root
    ELSE LET line == StripWs(lines[i])
         IN IF line = <<>> \/ line[1] = "#" THEN ParseLoop(lines, i + 1, root, path)
            ELSE IF IsBlockStart(line)
            THEN ParseLoop(lines, i + 1, SetAt(root, path, BlockKey(line), EmptyDict),
                           Append(path, BlockKey(line)))
            ELSE IF line = <<"}">>
            THEN ParseLoop(lines, i + 1, root,
                           IF path = <<>> THEN path ELSE SubSeq(path, 1, Len(path) - 1))
            ELSE IF IsKeyValue(line)
            THEN ParseLoop(lines, i + 1,
                           SetAt(root, path, KeyPrefix(line),
                                 ParsedValue(tokenize_line_value(RawValue(line)))),
                           path)
            ELSE ParseLoop(lines, i + 1, root, path)

parse_parameters(file_content) == ParseLoop(file_content, 1, EmptyDict, <<>>)

\* " ".join(tokens)
RECURSIVE JoinSpace(_)
JoinSpace(tokens) ==
    IF tokens = <<>> THEN <<>>
    ELSE IF Len(tokens) = 1 THEN tokens[1]
    ELSE tokens[1] \o <<" ">> \o JoinSpace(Tail(tokens))

\* _format_value_for_output: a string is quoted when it holds a space.
format_value_for_output(value) ==
    IF value.type = "list" THEN JoinSpace([i \in DOMAIN value.v |-> value.v[i].v])
    ELSE IF value.type = "str" /\ " " \in Range(value.v) THEN <<DQ>> \o value.v \o <<DQ>>
    ELSE value.v

Prefix(indent) == [i \in 1..(2 * indent) |-> " "]

\* format_parameters as the lines of the text it returns.  The text of an
\* empty nested block is "", which takes one (empty) line of the join.
RECURSIVE FormatEntries(_, _)
FormatEntries(entries, indent) ==
    IF entries = <<>> THEN <<>>
    ELSE LET e == entries[1]
             nested == FormatEntries(e.val.v, indent + 1)
             here == IF e.val.type = "dict"
                     THEN <<Prefix(indent) \o e.key \o <<" ", "{">> >>
                          \o (IF nested = <<>> THEN << <<>> >> ELSE nested)
                          \o <<Prefix(indent) \o <<"}">> >>
                     ELSE <<Prefix(indent) \o e.key \o <<" ", "=", " ">>
                                           \o format_value_for_output(e.val)>>
         IN here \o FormatEntries(Tail(entries), indent)

format_parameters(params) == FormatEntries(params.v, 0)

---------------------------------------------------------------------------
(* debias/omission_table.py *)

\* str() of the residue numbers of the IDs.
IntStr == (1 :> "1") @@ (2 :> "2") @@ (3 :> "3") @@ (4 :> "4") @@ (99999 :> "99999")

\* _id_to_str: "|".join(map(str, item)), the string given by its parts
\* between the bars, as the schedule keys are.
id_to_str(item) == [i \in DOMAIN item |-> IF i = 2 THEN IntStr[item[i]] ELSE item[i]]

\* build_omission_matrix: [id_strings, shape, matrix], matrix[<<i, j>>] for
\* item i and sample j, both counted from 1.
build_omission_matrix(all_ids, sels) ==
    LET n_items == Len(all_ids)
        n_cols == Len(sels)
        id_strings == [i \in 1..n_items |-> id_to_str(all_ids[i])]
        \* {s: i for i, s in enumerate(id_strings)}: the last index of s
        idx_map(s) == CHOOSE i \in 1..n_items :
                         id_strings[i] = s /\ \A h \in (i + 1)..n_items : id_strings[h] # s
        indices(sel) == {idx_map(id_to_str(sel[x])) :
                            x \in {y \in DOMAIN sel : id_to_str(sel[y]) \in Range(id_strings)}}
    IN [id_strings |-> id_strings,
        shape |-> <<n_items, n_cols>>,
        matrix |-> [c \in (1..n_items) \X (1..n_cols) |-> c[1] \in indices(sels[c[2]])]]

\* The nonzero columns of row r from column j on, as sample indices from 0.
RECURSIVE RowColumns(_, _, _, _)
RowColumns(matrix, r, j, n_cols) ==
    IF j > n_cols THEN <<>>
    ELSE (IF matrix[<<r, j>>] THEN <<j - 1>> ELSE <<>>) \o RowColumns(matrix, r, j + 1, n_cols)

\* The loop over zip(*np.nonzero(matrix)), row by row from row r on, for the
\* key sid.
RECURSIVE Appended(_, _, _, _)
Appended(table, sid, r, n_items) ==
    IF r > n_items THEN <<>>
    ELSE (IF table.id_strings[r] = sid
          THEN RowColumns(table.matrix, r, 1, table.shape[2]) ELSE <<>>)
         \o Appended(table, sid, r + 1, n_items)

\* omission_sparse_map without the final loop of setdefault calls: the IDs
\* never omitted have no entry.
omission_sparse_map_nonzero_rows(table) ==
    LET listed == {sid \in Range(table.id_strings) : Appended(table, sid, 1, table.shape[1]) # <<>>}
    IN [sid \in listed |-> Appended(table, sid, 1, table.shape[1])]

\* omission_sparse_map: the function from the id strings to their lists.
omission_sparse_map(table) ==
    IF table.shape[1] = 0 \/ table.shape[2] = 0
    THEN [sid \in Range(table.id_strings) |-> <<>>]
    ELSE [sid \in Range(table.id_strings) |-> Appended(table, sid, 1, table.shape[1])]

---------------------------------------------------------------------------
(* debias/phenix_param_parser.py: ParameterFile.save *)

\* "\n".join(lines)
RECURSIVE JoinLines(_)
JoinLines(lines) ==
    IF lines = <<>> THEN <<>>
    ELSE IF Len(lines) = 1 THEN lines[1]
    ELSE lines[1] \o <<"\n">> \o JoinLines(Tail(lines))

\* formatted = format_parameters(self.params) + "\n"; format_parameters
\* returns the joined lines.
Formatted(params) == JoinLines(format_parameters(params)) \o <<"\n">>

\* The beginnings of a text of at least n characters, the whole text included.
PrefixesFrom(text, n) == {SubSeq(text, 1, len) : len \in n..Len(text)}

\* out_path = self.file_path when no out_path is given; None when neither is set.
ResolvedPath(out_path, instance_path) == IF out_path # None THEN out_path ELSE instance_path

\* The target of the save being modelled.
Target == ResolvedPath(Get(call).out_path, Get(call).before.file_path)

\* What the call came to: the exception raised and the step that raised it,
\* and what became of tmp_name.unlink() in the except branch.
Raised(name, step) == Some([exception |-> name, step |-> step, unlink |-> ""])
Returned == Some([exception |-> "", step |-> "", unlink |-> ""])

---------------------------------------------------------------------------
(* debias/parameter_generator.py *)

\* A selection string is the sequence of its words, brackets and spaces.

\* f"(chain {sel[0]} and resid {sel[1]})"
ResidueClause(sel) ==
    <<"(", "chain", " ", sel[1], " ", "and", " ", "resid", " ", IntStr[sel[2]], ")">>

\* f"(chain {sel[0]} and resid {sel[1]} and name {sel[3]})"
AtomClause(sel) ==
    <<"(", "chain", " ", sel[1], " ", "and", " ", "resid", " ", IntStr[sel[2]],
      " ", "and", " ", "name", " ", sel[4], ")">>

\* " or ".join(formatted)
RECURSIVE JoinOr(_)
JoinOr(formatted) ==
    IF formatted = <<>> THEN <<>>
    ELSE IF Len(formatted) = 1 THEN formatted[1]
    ELSE formatted[1] \o <<" ", "or", " ">> \o JoinOr(Tail(formatted))

\* _format_selection: clauses for "residues" and for "atoms", none for any
\* other omit type.
format_selection(selection_data, omit_type) ==
    IF omit_type = "residues"
    THEN JoinOr([i \in DOMAIN selection_data |-> ResidueClause(selection_data[i])])
    ELSE IF omit_type = "atoms"
    THEN JoinOr([i \in DOMAIN selection_data |-> AtomClause(selection_data[i])])
    ELSE JoinOr(<<>>)

\* set(chain.from_iterable(selections))
Flattened(sels) == UNION {Range(sels[j]) : j \in DOMAIN sels}

\* sorted(flattened, key=lambda x: x[1]): IDs of one residue number keep the
\* order the set gives them, which no later step depends on.
SortedIds(sels) ==
    CHOOSE f \in Orderings(Flattened(sels)) : \A a, b \in DOMAIN f : a < b => f[a][2] <= f[b][2]

---------------------------------------------------------------------------
(* Inputs *)

\* Largest ensemble size of a query or an aggregation.
MaxN == 4

\* Largest length of a value vector and largest number of owner columns of a
\* status matrix given to solve_voxel directly.
MaxValues == 3
MaxOwners == 2

\* Largest resolution, in 1/10 Angstrom.
MaxRes == 33

\* Element names as gemmi and callers may spell them; Zn is not in the table.
Elements ==
    {<<"H">>, <<"C">>, <<"N">>, <<"O">>, <<"S">>, <<"P">>, <<"S", "e">>, <<"M", "g">>,
     <<"C", "l">>, <<"C", "a">>, <<"s", "e">>, <<"C", "A">>, <<"Z", "n">>, <<" ", "o", " ">>}

KeyN == <<"A", "1", "SER", "N", NUL>>
KeyCA == <<"A", "1", "SER", "CA", NUL>>
KeyHA == <<"A", "1", "SER", "HA", NUL>>
KeyCBa == <<"A", "2", "MSE", "CB", "A">>
KeySE == <<"A", "2", "MSE", "SE", NUL>>
KeyGone == <<"A", "9", "GLY", "CA", NUL>>
KeySER == <<"A", "1", "SER">>
KeyMSE == <<"A", "2", "MSE">>
KeyShort == <<"A", "1">>

Keys == {KeyN, KeyCA, KeyHA, KeyCBa, KeySE, KeyGone, KeySER, KeyMSE, KeyShort}

\* Lists of omitted ensemble indices as a schedule may hold them.
IdLists == {<<>>, <<1, 3>>, <<0, 1, 2, 3, 4>>, <<-1, 0>>}

Modes == {"atoms", "amino_acids"}

\* Schedules of one or two entries with distinct keys, in file order.
MapsOver(keys) ==
    LET entries == keys \X IdLists
    IN {<<e>> : e \in entries} \cup {p \in entries \X entries : p[1][1] # p[2][1]}

OmissionMaps == MapsOver(Keys)

\* The schedules of the aggregation runs.
PipelineMaps ==
    {<<e>> : e \in {KeyCA, KeySER, KeySE} \X IdLists} \cup
    {<<<<KeyCA, <<1, 3>>>>, <<KeyN, ids>>>> : ids \in IdLists \ {<<>>}}

\* Points queried directly: the cell positions and points on and next to the
\* boundary of the CA sphere at resolution 1.2.
QueryPoints == {get_position(c) : c \in Cells} \cup {<<260, 0, 0>>, <<259, 0, 0>>}

\* Density values, as binary32 significands around 1.5 * 2^23.
Values == {12582914, 12582933}

\* Ensemble member grids: two constant ones and one that varies with the cell.
MemberGrids ==
    {[c \in Cells |-> 12582914], [c \in Cells |-> 12582933], [c \in Cells |-> 12582912 + c]}

SeqsUpTo(S, n) == UNION {[1..len -> S] : len \in 1..n}

\* All nrows x ncols matrices of 0 and 1.
Matrices(nrows, ncols) == [1..nrows -> [1..ncols -> {0, 1}]]

\* Largest number of trials of sample_null_distribution called directly, and
\* the number of trials of a run (20000 in run_quantification).
MaxTrials == 3
RunSamples == 2

\* Largest number of maps (map_cap) of a run.
MaxMaps == 3

\* The fractional coordinates a trial may draw, in halves of the unit cell.
FracPoints == {<<0, 0, 0>>, <<0, 1, 0>>, <<2, 0, 0>>}

\* The shapes of the mask grid (spacing 0.5 Angstrom): that of the maps, or
\* a finer one.
MaskShapes == {GridShape, <<14, 9, 5>>}

\* Interpolated mask values at the wrapped coordinates, in halves.
MaskValues == [{Wrap(f) : f \in FracPoints} -> 0..2]
Masks == [shape : MaskShapes, value : MaskValues]

\* The masks of the runs: nothing inside, everything inside, and one node
\* inside with the other on the boundary.
RunMasks ==
    [shape : MaskShapes,
     value : {[f \in {Wrap(g) : g \in FracPoints} |-> 0],
              [f \in {Wrap(g) : g \in FracPoints} |-> 2],
              [f \in {Wrap(g) : g \in FracPoints} |-> 2 - f[2]]}]

\* SNR grids given to the statistical model directly: a constant grid, a
\* varying one, and one of another shape.
SnrGrids == {[c \in Cells |-> 0], [c \in Cells |-> c], [c \in 1..4 |-> 5 - c]}

\* The grids of the map files of a run; the last has another shape.
RunGrids == {[c \in Cells |-> 12582912 + c], [c \in Cells |-> 12582933]}
OddGrid == [c \in 1..4 |-> 12582914]

\* The map files 0..map_cap-1 of a run; map 0, when present, has GridShape.
RunMapFiles ==
    {ms \in SeqsUpTo({Missing} \cup {MapFile(g) : g \in RunGrids \cup {OddGrid}}, MaxMaps) :
        ms[1] # MapFile(OddGrid)}

\* The schedules and ensembles of the aggregations by cell.
CellMaps ==
    {<<<<KeySER, <<1, 3>>>>>>, <<<<KeySE, <<0>>>>>>, <<<<KeyCA, <<1, 3>>>>, <<KeyN, <<0>>>>>>}
CellEnsembles ==
    {<<[c \in Cells |-> 12582912 + c], [c \in Cells |-> 12582914]>>,
     <<[c \in Cells |-> 12582912 + c], [c \in Cells |-> 12582933], [c \in Cells |-> 12582914]>>,
     <<[c \in Cells |-> 12582914], [c \in Cells |-> 12582933],
       [c \in Cells |-> 12582912 + c], [c \in Cells |-> 12582933]>>}

\* The schedules of the runs.
RunMaps ==
    {<<<<KeySER, <<1, 3>>>>>>, <<<<KeyGone, <<1, 3>>>>>>, <<<<KeySER, <<>>>>>>,
     <<<<KeyShort, <<0>>>>>>, <<<<KeyCA, <<1, 3>>>>, <<KeyN, <<0>>>>>>,
     <<<<KeyCA, <<1, 3>>>>>>, <<<<KeyCA, <<1, 3>>>>, <<KeyN, <<1, 3>>>>>>}

\* Largest n_iterations of a sampler call.
MaxIterations == 2

\* Structures given to the sampler: three ATOM residues, a HETATM residue and
\* a second copy of the first residue (a second model); two residues, one
\* with an atom in two alternate locations; a structure of HETATM records
\* only.
SamplerStructures ==
    {<<Res("A", 1, "SER", "A", <<<<"N", NUL>>>>), Res("A", 2, "MSE", "H", <<<<"SE", NUL>>>>),
       Res("A", 3, "GLY", "A", <<<<"CA", NUL>>>>), Res("A", 4, "ALA", "A", <<<<"CA", NUL>>>>),
       Res("A", 1, "SER", "A", <<<<"N", NUL>>>>)>>,
     <<Res("A", 1, "SER", "A", <<<<"N", NUL>>>>),
       Res("A", 3, "GLY", "A", <<<<"CA", "A">>, <<"CA", "B">>>>)>>,
     <<Res("A", 2, "MSE", "H", <<<<"SE", NUL>>>>)>>}

\* always_omit: None, or the selectors of the string.
AlwaysOmits ==
    {None,
     Some(<<<<"A", "1", "SER">>>>),
     Some(<<<<"A", "01", "SER">>, <<"Z", "99999", "FOO">>>>),
     Some(<<<<"A", "1", "SER">>, <<"A", "3", "GLY">>, <<"A", "4", "ALA">>, <<>>>>),
     Some(<<<<"A", "2", "MSE">>, <<"A", "3", "GLY">>>>),
     Some(<<<<"A", "1", "SER", "N", NUL>>, <<"A", "9", "SER", "N", NUL>>>>),
     Some(<<<<"A", "1A", "SER">>>>)}

\* omit_fraction: the multiples of 1/8 in [-1/8, 9/8].
Fractions == {<<n, 8>> : n \in (-1)..9}

SamplerArgs ==
    [structure : {None} \cup {Some(st) : st \in SamplerStructures},
     mode : Modes,
     fraction : Fractions,
     n_iterations : {Some(n) : n \in 0..MaxIterations},
     always_omit : AlwaysOmits]

\* Calls that leave n_iterations at None, so that _calculate_iterations
\* chooses the count: on no file, on the structure without IDs and on a pool
\* of one ID.
DefaultIterationArgs ==
    [structure : {None} \cup {Some(st) : st \in {x \in SamplerStructures : Len(x) <= 2}},
     mode : {"amino_acids"},
     fraction : Fractions,
     n_iterations : {None},
     always_omit : {Some(<<<<"A", "1", "SER">>>>)}]

\* Paths of a configuration: None, the empty string, a path with no file and
\* a path with a file.
ConfigPaths ==
    {None, Some([text |-> "", exists |-> FALSE]),
     Some([text |-> "p", exists |-> FALSE]), Some([text |-> "p", exists |-> TRUE])}

DebiasParams == [structure_path : ConfigPaths, reflections_path : ConfigPaths, screening_path : ConfigPaths]

\* Longest value text of a one-line parameter text.
MaxText == 5

\* Characters of the value texts: a letter, a space, a tab, a double quote
\* and a digit.
ValueChars == {"a", " ", TAB, DQ, "1"}

ValueTexts == UNION {[1..n -> ValueChars] : n \in 0..MaxText}

KeyValueLine(key, text) == key \o <<" ", "=", " ">> \o text

\* Value texts of the kinds of value a parameter file holds: a quoted string
\* with a space, with single quotes, ints, floats, booleans, None, a token
\* list.
KindTexts ==
    {<<DQ, "a", " ", "b", DQ>>, <<SQ, "x", " ", "b", SQ>>, <<"1", "0">>, <<"-", "0", "7">>,
     <<"2", ".", "5">>, <<"0", "2", ".", "5", "0">>, <<"-", "0", ".", "0", "1">>,
     <<"0", ".", "0", "0", "0", "1">>, <<"0", ".", "0", "0", "0", "0", "1">>,
     <<"T", "r", "u", "e">>, <<"t", "r", "u", "e">>, <<"F", "a", "l", "s", "e">>,
     <<"N", "o", "n", "e">>,
     <<"a", " ", "1", " ", "N", "o", "n", "e", " ", "2", ".", "5">>, <<"1", "e", "5">>, <<>>}

\* Parameter texts: one key = value line for every value text; and texts
\* with comments, blank lines, nested blocks, an empty block, a repeated key
\* and an unmatched closing brace, around a value of each kind.
ParameterTexts ==
    {<<KeyValueLine(<<"k">>, t)>> : t \in ValueTexts \cup KindTexts}
    \cup {<<<<"#", " ", "x">>, KeyValueLine(<<"a">>, t), <<>>,
            <<"n", " ", "{">>, <<" ", " ">> \o KeyValueLine(<<"s">>, u),
            <<" ", "b", "{">>, <<"}">>, <<"}">>, KeyValueLine(<<"a", ".", "b">>, t), <<"}">>,
            KeyValueLine(<<"a">>, u)>> : t \in KindTexts, u \in KindTexts}

\* Longest list of IDs and longest list of selections given to the table.
MaxIds == 2
MaxSelections == 2

TableIds == {<<"A", 1, "SER">>, <<"A", 3, "GLY">>}

\* Lists of IDs and lists of selections, repeated IDs and IDs outside
\* all_ids included.
TableCalls ==
    [all_ids : {<<>>} \cup SeqsUpTo(TableIds, MaxIds),
     selections : {<<>>} \cup SeqsUpTo({<<>>} \cup SeqsUpTo(TableIds, MaxIds), MaxSelections)]

\* Paths a ParameterFile is loaded from and saved to.
Paths == {"a.params", "b.params"}

\* What a path holds before the save: nothing, or an earlier file.
EarlierContent == <<"x", " ", "=", " ", "0", "\n">>
Contents == {None, Some(EarlierContent)}

\* self.params of the instance being saved.
SavedParams ==
    {parse_parameters(t) : t \in {<<KeyValueLine(<<"a">>, <<"1">>)>>,
                                   <<KeyValueLine(<<"k">>, <<DQ, "a", " ", "b", DQ>>)>>,
                                   <<<<"n", " ", "{">>, KeyValueLine(<<"s">>, <<"2">>), <<"}">> >>}}

\* Omit types: the two of DebiasParams, and the one _format_selection tests for.
OmitTypes == {"amino_acids", "atoms", "residues"}

\* IDs the sampler returns: AtomIDs for "atoms", AminoIDs otherwise
\* (sample_ids, lines 155-158).
AtomIds == {<<"A", 1, "SER", "CA", NUL>>, <<"A", 1, "SER", "CA", "B">>}
SampledIds(omit_type) == IF omit_type = "atoms" THEN AtomIds ELSE TableIds

\* What stochastic_omission_sampler returned: a list of selections; a
\* structure without IDs gives one empty selection.
GenerateCalls ==
    UNION {[omit_type : {t},
            sampled : {<< <<>> >>} \cup SeqsUpTo(SeqsUpTo(SampledIds(t), MaxIds), MaxSelections)] :
           t \in OmitTypes}

---------------------------------------------------------------------------
(* Specifications *)

IdleRadius == rq = None /\ rq_radius = None
IdleIndex ==
    /\ omission_map = <<>> /\ mode = "atoms" /\ resolution = 0 /\ k = 0
    /\ spatial_index = None /\ query = None
IdleSolve == sv = None
IdleAggregate == ensemble = None /\ outputs = None
IdleStat ==
    /\ snr_grid = None /\ mask = None /\ n_samples = 0
    /\ draws = <<>> /\ null_samples = <<>> /\ p_value_map = None
IdleRun == files = None /\ stages = <<>> /\ written = {} /\ diag = <<>>
IdleCells == cell_writes = <<>>
IdleSampler ==
    /\ sample_args = None /\ iteration = 0 /\ selections = <<>>
    /\ exception = "" /\ calls = <<>>
IdleDebias == call = None /\ result = None /\ disk = None /\ file_path = None
IdleLater == IdleStat /\ IdleRun /\ IdleCells /\ IdleSampler /\ IdleDebias

\* get_atom_radius at two resolutions of one element.
InitRadius ==
    /\ pc = "radius"
    /\ rq \in {r \in [element : Elements, res_lo : 0..MaxRes, res_hi : 0..MaxRes] : r.res_lo <= r.res_hi}
    /\ rq_radius = None
    /\ IdleIndex /\ IdleSolve /\ IdleAggregate /\ IdleLater

LookupRadius ==
    /\ pc = "radius"
    /\ pc' = "radius_done"
    /\ rq_radius' = Some(<<get_atom_radius(rq.element, rq.res_lo), get_atom_radius(rq.element, rq.res_hi)>>)
    /\ UNCHANGED <<rq, omission_map, mode, resolution, k, spatial_index, query, sv, ensemble, outputs>>
    /\ UNCHANGED later_vars

NextRadius == LookupRadius

SpecRadius == InitRadius /\ [][NextRadius]_vars

\* build_spatial_index, then queries of the index.
InitIndex ==
    /\ pc = "start"
    /\ omission_map \in OmissionMaps
    /\ mode \in Modes
    /\ resolution \in {12, 27}
    /\ k \in {10, 15}
    /\ spatial_index = None /\ query = None
    /\ IdleRadius /\ IdleSolve /\ IdleAggregate /\ IdleLater

BuildIndex ==
    /\ pc = "start"
    /\ spatial_index' = build_spatial_index(omission_map, resolution, k, mode)
    /\ pc' = IF spatial_index' = None THEN "failed" ELSE "built"
    /\ UNCHANGED <<rq, rq_radius, omission_map, mode, resolution, k, query, sv, ensemble, outputs>>
    /\ UNCHANGED later_vars

Query ==
    /\ pc = "built"
    /\ pc' = "queried"
    /\ \E point \in QueryPoints, n_maps \in 1..MaxN :
         \E order \in OwnerOrders(spatial_index, point) :
            query' = Some([point |-> point, n_maps |-> n_maps,
                           result |-> query_voxel_ownership(spatial_index, point, n_maps, order)])
    /\ UNCHANGED <<rq, rq_radius, omission_map, mode, resolution, k, spatial_index, sv, ensemble, outputs>>
    /\ UNCHANGED later_vars

NextIndex == BuildIndex \/ Query

SpecIndex == InitIndex /\ [][NextIndex]_vars

\* solve_voxel on a value vector with no status or any 0/1 status matrix.
InitSolve ==
    /\ pc = "solve"
    /\ \E values \in SeqsUpTo(Values, MaxValues) :
         \E status \in {None} \cup {Some(m) : m \in UNION {Matrices(Len(values), c) : c \in 1..MaxOwners}} :
            sv = Some([values |-> values, status |-> status, result |-> None])
    /\ IdleRadius /\ IdleIndex /\ IdleAggregate /\ IdleLater

Solve ==
    /\ pc = "solve"
    /\ pc' = "solved"
    /\ sv' = Some([Get(sv) EXCEPT !.result = Some(solve_voxel(Get(sv).values, Get(sv).status))])
    /\ UNCHANGED <<rq, rq_radius, omission_map, mode, resolution, k, spatial_index, query, ensemble, outputs>>
    /\ UNCHANGED later_vars

NextSolve == Solve

SpecSolve == InitSolve /\ [][NextSolve]_vars

\* The aggregation run: build the index, then aggregate the ensemble over it.
Init ==
    /\ pc = "start"
    /\ omission_map \in PipelineMaps
    /\ mode \in Modes
    /\ resolution = 27
    /\ k = 10
    /\ spatial_index = None /\ query = None
    /\ ensemble \in {Some([scale |-> sc, members |-> ms]) : sc \in Scales, ms \in SeqsUpTo(MemberGrids, MaxN)}
    /\ outputs = None
    /\ IdleRadius /\ IdleSolve /\ IdleLater

Aggregate ==
    /\ pc = "built"
    /\ pc' = "done"
    /\ \E orders \in OrderChoices(spatial_index, Len(CellSeq)) :
          outputs' = Some(aggregate_ensemble(Get(ensemble), spatial_index, orders))
    /\ UNCHANGED <<rq, rq_radius, omission_map, mode, resolution, k, spatial_index, query, sv, ensemble>>
    /\ UNCHANGED later_vars

Next == BuildIndex \/ Aggregate

Spec == Init /\ [][Next]_vars

\* aggregate_ensemble with the bodies of the triple loop run one cell at a
\* time in any order, each writing the four slots of its own cell.
InitCells ==
    /\ pc = "start"
    /\ omission_map \in CellMaps
    /\ mode \in Modes
    /\ resolution = 27
    /\ k = 10
    /\ spatial_index = None /\ query = None
    /\ ensemble \in {Some([scale |-> sc, members |-> ms]) : sc \in Scales, ms \in CellEnsembles}
    /\ outputs = None
    /\ cell_writes = [c \in Cells |-> 0]
    /\ IdleRadius /\ IdleSolve /\ IdleStat /\ IdleRun /\ IdleSampler /\ IdleDebias

ComputeCell ==
    /\ pc = "built"
    /\ \E c \in Cells :
          /\ cell_writes[c] = 0
          /\ cell_writes' = [cell_writes EXCEPT ![c] = @ + 1]
          /\ \E order \in OwnerOrders(spatial_index, get_position(c)) :
                outputs' = Some((c :> AggregateCell(Get(ensemble), spatial_index, c, order))
                                @@ (IF outputs = None THEN <<>> ELSE Get(outputs)))
          /\ pc' = IF \A d \in Cells : cell_writes'[d] > 0 THEN "done" ELSE "built"
    /\ UNCHANGED <<rq, rq_radius, omission_map, mode, resolution, k, spatial_index, query, sv, ensemble>>
    /\ UNCHANGED <<stat_vars, run_vars, sampler_vars, debias_vars>>

NextCells == BuildIndex \/ ComputeCell

SpecCells == InitCells /\ [][NextCells]_vars

\* sample_null_distribution, then fit_t_test on its samples.
InitNull ==
    /\ pc = "sampling"
    /\ snr_grid \in {Some(g) : g \in SnrGrids}
    /\ mask \in {Some(m) : m \in Masks}
    /\ n_samples \in 0..MaxTrials
    /\ draws = <<>> /\ null_samples = <<>> /\ p_value_map = None
    /\ IdleRadius /\ IdleIndex /\ IdleSolve /\ IdleAggregate /\ IdleRun /\ IdleCells /\ IdleSampler /\ IdleDebias

\* One iteration of the loop over range(n_samples).
SampleTrial ==
    /\ pc = "sampling"
    /\ Len(draws) < n_samples
    /\ \E frac \in FracPoints :
          /\ draws' = Append(draws, frac)
          /\ null_samples' = Trial(null_samples, Get(snr_grid), Get(mask), frac)
    /\ UNCHANGED <<pc, core_vars, snr_grid, mask, n_samples, p_value_map, run_vars>>
    /\ UNCHANGED <<cell_vars, sampler_vars, debias_vars>>

\* The loop is over: return np.array(null_snrs).
EndSampling ==
    /\ pc = "sampling"
    /\ Len(draws) = n_samples
    /\ pc' = "sampled"
    /\ UNCHANGED <<core_vars, stat_vars, run_vars>>
    /\ UNCHANGED <<cell_vars, sampler_vars, debias_vars>>

Fit ==
    /\ pc = "sampled"
    /\ LET r == fit_t_test(null_samples, Get(snr_grid))
       IN /\ pc' = IF r.raised THEN "raised" ELSE "fitted"
          /\ p_value_map' = IF r.raised THEN None ELSE Some(r.p)
    /\ UNCHANGED <<core_vars, snr_grid, mask, n_samples, draws, null_samples, run_vars>>
    /\ UNCHANGED <<cell_vars, sampler_vars, debias_vars>>

NextNull == SampleTrial \/ EndSampling \/ Fit

SpecNull == InitNull /\ [][NextNull]_vars

\* run_quantification from the loading of the omission map on.
InitRun ==
    /\ pc = "run"
    /\ omission_map \in RunMaps
    /\ mode = "atoms" /\ resolution = 27 /\ k = 10
    /\ spatial_index = None /\ query = None
    /\ files \in {Some([maps |-> ms, original_pdb |-> b, force |-> FALSE]) :
                      ms \in RunMapFiles, b \in BOOLEAN}
    /\ mask \in {Some(m) : m \in RunMasks}
    /\ n_samples = RunSamples
    /\ snr_grid = None /\ draws = <<>> /\ null_samples = <<>> /\ p_value_map = None
    /\ stages = <<>> /\ written = {} /\ diag = <<>>
    /\ IdleRadius /\ IdleSolve /\ IdleAggregate /\ IdleCells /\ IdleSampler /\ IdleDebias

\* Lines 79-105: the test for existing results, then the mode, the
\* resolution of map 0, the index.
RunBuildIndex ==
    /\ pc = "run"
    /\ IF ~Get(files).force /\ "snr" \in written
       THEN /\ pc' = "skipped"
            /\ diag' = Append(diag, Message("info", "Results exist"))
            /\ UNCHANGED <<mode, spatial_index, stages>>
       ELSE IF ~Get(files).maps[1].exists
       THEN /\ pc' = "raised"
            /\ UNCHANGED <<mode, spatial_index, stages, diag>>
       ELSE /\ mode' = infer_omission_mode(omission_map)
            /\ spatial_index' = build_spatial_index(omission_map, resolution, k, mode')
            /\ stages' = Append(stages, "build_spatial_index")
            /\ pc' = AfterBuild(spatial_index')
            /\ diag' = diag \o <<Message("info", "Quantifying"), Message("info", "Resolution")>>
                            \o (IF spatial_index' = None
                                THEN <<Message("error", "Spatial index failed")>> ELSE <<>>)
    /\ UNCHANGED <<rq, rq_radius, omission_map, resolution, k, query, sv, ensemble, outputs>>
    /\ UNCHANGED <<stat_vars, files, written>>
    /\ UNCHANGED <<cell_vars, sampler_vars, debias_vars>>

\* Line 107: load_ensemble.
RunLoadEnsemble ==
    /\ pc = "indexed"
    /\ LET r == load_ensemble(Get(files).maps)
       IN /\ stages' = Append(stages, "load_ensemble")
          /\ diag' = diag \o r.printed
          /\ pc' = IF r.raised THEN "raised" ELSE "loaded"
          /\ ensemble' = IF r.raised THEN None ELSE Some([scale |-> "unit", members |-> r.data])
    /\ UNCHANGED <<rq, rq_radius, omission_map, mode, resolution, k, spatial_index, query, sv, outputs>>
    /\ UNCHANGED <<stat_vars, files, written>>
    /\ UNCHANGED <<cell_vars, sampler_vars, debias_vars>>

\* Line 108: aggregate_ensemble.
RunAggregate ==
    /\ pc = "loaded"
    /\ pc' = "aggregated"
    /\ stages' = Append(stages, "aggregate_ensemble")
    /\ \E orders \in OrderChoices(spatial_index, Len(CellSeq)) :
          outputs' = Some(aggregate_ensemble(Get(ensemble), spatial_index, orders))
    /\ UNCHANGED <<rq, rq_radius, omission_map, mode, resolution, k, spatial_index, query, sv, ensemble>>
    /\ UNCHANGED <<stat_vars, files, written, diag>>
    /\ UNCHANGED <<cell_vars, sampler_vars, debias_vars>>

\* Lines 110-115: the mean, std and SNR maps and the distributions are saved.
RunSaveMaps ==
    /\ pc = "aggregated"
    /\ pc' = "saved"
    /\ written' = written \cup AggregateFiles
    /\ snr_grid' = Some(snr_map(Get(outputs)))
    /\ diag' = Append(diag, Message("info", "Running statistical modeling"))
    /\ UNCHANGED <<core_vars, mask, n_samples, draws, null_samples, p_value_map, files, stages>>
    /\ UNCHANGED <<cell_vars, sampler_vars, debias_vars>>

\* Lines 117-121 and 28-39 of sample_null_distribution: the structure is read
\* (which raises when the file is absent), the SNR map and the mask are set up.
RunStartSampling ==
    /\ pc = "saved"
    /\ stages' = Append(stages, "sample_null_distribution")
    /\ pc' = IF Get(files).original_pdb THEN "sampling" ELSE "raised"
    /\ UNCHANGED <<core_vars, stat_vars, files, written, diag>>
    /\ UNCHANGED <<cell_vars, sampler_vars, debias_vars>>

\* Lines 122-128: fit_t_test on the in-memory SNR array, the p-value map is
\* saved.
RunFit ==
    /\ pc = "sampled"
    /\ stages' = Append(stages, "fit_t_test")
    /\ LET r == fit_t_test(null_samples, Get(snr_grid))
       IN /\ pc' = IF r.raised THEN "raised" ELSE "finished"
          /\ p_value_map' = IF r.raised THEN None ELSE Some(r.p)
          /\ written' = IF r.raised THEN written ELSE written \cup {"p_value"}
          /\ diag' = IF r.raised THEN diag
                     ELSE diag \o <<Message("info", "Quantification results saved"),
                                    Message("info", "Total execution time")>>
    /\ UNCHANGED <<core_vars, snr_grid, mask, n_samples, draws, null_samples, files>>
    /\ UNCHANGED <<cell_vars, sampler_vars, debias_vars>>

NextRun ==
    \/ RunBuildIndex \/ RunLoadEnsemble \/ RunAggregate \/ RunSaveMaps
    \/ RunStartSampling \/ SampleTrial \/ EndSampling \/ RunFit

SpecRun == InitRun /\ [][NextRun]_vars

\* Runs of one experiment, one after another, on the same output directory.
InitRerun ==
    /\ InitRun
    /\ omission_map = <<<<KeySER, <<1, 3>>>>>>

\* quantify_cli is invoked again, with or without --force, after a run has
\* returned or raised: the files written so far stay, everything in memory
\* starts afresh.
RunAgain ==
    /\ pc \in {"raised", "returned", "finished", "skipped"}
    /\ pc' = "run"
    /\ \E force \in BOOLEAN : files' = Some([Get(files) EXCEPT !.force = force])
    /\ mode' = "atoms" /\ spatial_index' = None /\ ensemble' = None /\ outputs' = None
    /\ snr_grid' = None /\ draws' = <<>> /\ null_samples' = <<>> /\ p_value_map' = None
    /\ stages' = <<>> /\ diag' = <<>>
    /\ UNCHANGED <<rq, rq_radius, omission_map, resolution, k, query, sv>>
    /\ UNCHANGED <<mask, n_samples, written>>
    /\ UNCHANGED <<cell_vars, sampler_vars, debias_vars>>

NextRerun == NextRun \/ RunAgain

SpecRerun == InitRerun /\ [][NextRerun]_vars

\* stochastic_omission_sampler: validation, then sample_ids collected into a
\* list.
InitSampler ==
    /\ pc = "sampler"
    /\ sample_args \in {Some(a) : a \in SamplerArgs \cup DefaultIterationArgs}
    /\ iteration = 0 /\ selections = <<>>
    /\ exception = "" /\ calls = <<>>
    /\ IdleRadius /\ IdleIndex /\ IdleSolve /\ IdleAggregate /\ IdleStat /\ IdleRun /\ IdleCells
    /\ IdleDebias

\* Lines 263-267 and 155-179: validation, the iteration count, the IDs, the
\* always_omit selectors and the cases without a shuffle.
StartSampler ==
    /\ pc = "sampler"
    /\ LET a == Get(sample_args)
           v == validate_sampler_inputs(a.structure, a.fraction, a.n_iterations)
       IN IF v # "ok"
          THEN /\ pc' = "sampler_raised" /\ selections' = selections
               /\ exception' = v
               /\ calls' = <<"_validate_sampler_inputs">>
          ELSE LET st == SamplerStart(a)
               IN /\ selections' = st.yielded
                  /\ pc' = IF st.raised THEN "sampler_raised"
                           ELSE IF st.done THEN "sampler_done" ELSE "shuffling"
                  /\ exception' = IF st.raised THEN "ValueError" ELSE ""
                  /\ calls' = <<"_validate_sampler_inputs", "_calculate_iterations",
                                "read_structure">>
                               \o (IF Len(extract_ids(Get(a.structure), a.mode)) = 0 THEN <<>>
                                   ELSE <<"_apply_always_omit_selectors">>)
    /\ UNCHANGED <<core_vars, stat_vars, run_vars, cell_vars, sample_args, iteration, debias_vars>>

\* One iteration of the loop over range(iterations): a shuffle of the
\* remaining pool and the selections of its chunks.
Shuffle ==
    /\ pc = "shuffling"
    /\ LET a == Get(sample_args)
           st == SamplerStart(a)
       IN /\ \E permuted \in Orderings(Range(st.remaining)) :
                selections' = selections \o
                    IterationSelections(st.always_omit_in, st.remaining, permuted, a.fraction)
          /\ iteration' = iteration + 1
          /\ pc' = IF iteration' = calculate_iterations(a.n_iterations, a.fraction)
                   THEN "sampler_done" ELSE "shuffling"
    /\ UNCHANGED <<core_vars, stat_vars, run_vars, cell_vars, sample_args, exception, calls, debias_vars>>

NextSampler == StartSampler \/ Shuffle

SpecSampler == InitSampler /\ [][NextSampler]_vars

\* _config_validator on one configuration.
InitConfig ==
    /\ pc = "config"
    /\ call \in {Some(d) : d \in DebiasParams}
    /\ result = None /\ disk = None /\ file_path = None
    /\ IdleRadius /\ IdleIndex /\ IdleSolve /\ IdleAggregate
    /\ IdleStat /\ IdleRun /\ IdleCells /\ IdleSampler

ValidateConfig ==
    /\ pc = "config"
    /\ pc' = "config_done"
    /\ result' = Some(config_validator(Get(call)))
    /\ UNCHANGED <<core_vars, stat_vars, run_vars, cell_vars, sampler_vars, call, disk, file_path>>

NextConfig == ValidateConfig

SpecConfig == InitConfig /\ [][NextConfig]_vars

\* parse_parameters, format_parameters and parse_parameters again on one text.
InitRoundTrip ==
    /\ pc = "parse"
    /\ call \in {Some(t) : t \in ParameterTexts}
    /\ result = None /\ disk = None /\ file_path = None
    /\ IdleRadius /\ IdleIndex /\ IdleSolve /\ IdleAggregate
    /\ IdleStat /\ IdleRun /\ IdleCells /\ IdleSampler

RoundTrip ==
    /\ pc = "parse"
    /\ pc' = "parse_done"
    /\ LET parsed == parse_parameters(Get(call))
           formatted == format_parameters(parsed)
       IN result' = Some([parsed |-> parsed, formatted |-> formatted,
                          reparsed |-> parse_parameters(formatted)])
    /\ UNCHANGED <<core_vars, stat_vars, run_vars, cell_vars, sampler_vars, call, disk, file_path>>

NextRoundTrip == RoundTrip

SpecRoundTrip == InitRoundTrip /\ [][NextRoundTrip]_vars

\* build_omission_matrix, then omission_sparse_map (parameter_generator.py,
\* lines 69-70).
InitTable ==
    /\ pc = "table"
    /\ call \in {Some(c) : c \in TableCalls}
    /\ result = None /\ disk = None /\ file_path = None
    /\ IdleRadius /\ IdleIndex /\ IdleSolve /\ IdleAggregate
    /\ IdleStat /\ IdleRun /\ IdleCells /\ IdleSampler

BuildTable ==
    /\ pc = "table"
    /\ pc' = "table_done"
    /\ LET table == build_omission_matrix(Get(call).all_ids, Get(call).selections)
       IN result' = Some([table |-> table, sparse_map |-> omission_sparse_map(table)])
    /\ UNCHANGED <<core_vars, stat_vars, run_vars, cell_vars, sampler_vars, call, disk, file_path>>

NextTable == BuildTable

SpecTable == InitTable /\ [][NextTable]_vars

\* ParameterFile.save(out_path), one step of the method at a time; disk holds
\* the files at Paths, the temporary file and whether out_dir exists.
InitSave ==
    /\ pc = "save"
    /\ file_path \in {None} \cup {Some(p) : p \in Paths}
    /\ disk \in {Some(d) : d \in [files : [Paths -> Contents], tmp : {None}, out_dir : BOOLEAN]}
    /\ call \in {Some([params |-> p, out_path |-> o,
                       before |-> [files |-> Get(disk).files, file_path |-> file_path]]) :
                    p \in SavedParams, o \in {None} \cup {Some(q) : q \in Paths}}
    /\ result = None
    /\ IdleRadius /\ IdleIndex /\ IdleSolve /\ IdleAggregate
    /\ IdleStat /\ IdleRun /\ IdleCells /\ IdleSampler

SaveUnchanged == UNCHANGED <<core_vars, stat_vars, run_vars, cell_vars, sampler_vars, call>>

\* Lines 205-211: no out_path and no file_path raises ValueError.
SaveResolve ==
    /\ pc = "save"
    /\ IF Target = None
       THEN pc' = "save_raised" /\ result' = Raised("ValueError", "resolve")
       ELSE pc' = "mkdir" /\ result' = result
    /\ UNCHANGED <<disk, file_path>>
    /\ SaveUnchanged

\* Lines 214-215: out_dir.mkdir(parents=True, exist_ok=True), outside the try.
SaveMkdir ==
    /\ pc = "mkdir"
    /\ \/ pc' = "create_tmp" /\ disk' = Some([Get(disk) EXCEPT !.out_dir = TRUE]) /\ result' = result
       \/ pc' = "save_raised" /\ disk' = disk /\ result' = Raised("OSError", "mkdir")
    /\ UNCHANGED file_path
    /\ SaveUnchanged

\* Lines 217-219: NamedTemporaryFile(dir=out_dir, delete=False), outside the try.
SaveCreateTemp ==
    /\ pc = "create_tmp"
    /\ \/ pc' = "write" /\ disk' = Some([Get(disk) EXCEPT !.tmp = Some(<<>>)]) /\ result' = result
       \/ pc' = "save_raised" /\ disk' = disk /\ result' = Raised("OSError", "create_tmp")
    /\ UNCHANGED file_path
    /\ SaveUnchanged

\* Line 222: tmp.write(bytes) on a buffered file: any beginning of the text
\* may have reached the file, whether the call returns or raises.
SaveWrite ==
    /\ pc = "write"
    /\ \E text \in PrefixesFrom(Formatted(Get(call).params), 0) :
          /\ disk' = Some([Get(disk) EXCEPT !.tmp = Some(text)])
          /\ \/ pc' = "flush" /\ result' = result
             \/ pc' = "cleanup" /\ result' = Raised("OSError", "write")
    /\ UNCHANGED file_path
    /\ SaveUnchanged

\* Line 223: tmp.flush(): the whole text is in the file when it returns.
SaveFlush ==
    /\ pc = "flush"
    /\ LET text == Formatted(Get(call).params)
           have == Len(Get(Get(disk).tmp))
       IN \/ /\ pc' = "close" /\ result' = result
             /\ disk' = Some([Get(disk) EXCEPT !.tmp = Some(text)])
          \/ /\ pc' = "cleanup" /\ result' = Raised("OSError", "flush")
             /\ \E part \in PrefixesFrom(text, have) :
                   disk' = Some([Get(disk) EXCEPT !.tmp = Some(part)])
    /\ UNCHANGED file_path
    /\ SaveUnchanged

\* Lines 224-225: tmp.close() and tmp_name.chmod(mode).
SaveClose ==
    /\ pc = "close"
    /\ \/ pc' = "chmod" /\ result' = result
       \/ pc' = "cleanup" /\ result' = Raised("OSError", "close")
    /\ UNCHANGED <<disk, file_path>>
    /\ SaveUnchanged

SaveChmod ==
    /\ pc = "chmod"
    /\ \/ pc' = "replace" /\ result' = result
       \/ pc' = "cleanup" /\ result' = Raised("OSError", "chmod")
    /\ UNCHANGED <<disk, file_path>>
    /\ SaveUnchanged

\* tmp_name.replace(out_path) done as a copy followed by an unlink: a failing
\* copy leaves a beginning of the text at the target.
SaveReplaceByCopy ==
    /\ pc = "replace"
    /\ \/ /\ pc' = "replaced" /\ result' = result
          /\ disk' = Some([Get(disk) EXCEPT !.files[Get(Target)] = Get(disk).tmp, !.tmp = None])
       \/ /\ pc' = "cleanup" /\ result' = Raised("OSError", "replace")
          /\ \E part \in PrefixesFrom(Get(Get(disk).tmp), 0) :
                disk' = Some([Get(disk) EXCEPT !.files[Get(Target)] = Some(part)])
    /\ UNCHANGED file_path
    /\ SaveUnchanged

\* Line 226: tmp_name.replace(out_path), one rename: the target holds the
\* temporary file's content and the temporary name is gone, or nothing changed.
SaveReplace ==
    /\ pc = "replace"
    /\ \/ /\ pc' = "replaced" /\ result' = result
          /\ disk' = Some([Get(disk) EXCEPT !.files[Get(Target)] = Get(disk).tmp, !.tmp = None])
       \/ pc' = "cleanup" /\ disk' = disk /\ result' = Raised("OSError", "replace")
    /\ UNCHANGED file_path
    /\ SaveUnchanged

\* Lines 227-233: except Exception: try tmp_name.unlink() except Exception:
\* pass; raise. A failing unlink is swallowed and the first error raised.
SaveCleanup ==
    /\ pc = "cleanup"
    /\ pc' = "save_raised"
    /\ \/ /\ disk' = Some([Get(disk) EXCEPT !.tmp = None])
          /\ result' = Some([Get(result) EXCEPT !.unlink = "done"])
       \/ /\ disk' = disk
          /\ result' = Some([Get(result) EXCEPT !.unlink = "failed"])
    /\ UNCHANGED file_path
    /\ SaveUnchanged

\* Line 234: self.file_path = out_path.
SaveReturn ==
    /\ pc = "replaced"
    /\ pc' = "save_returned"
    /\ file_path' = Target
    /\ result' = Returned
    /\ UNCHANGED disk
    /\ SaveUnchanged

NextSave ==
    \/ SaveResolve \/ SaveMkdir \/ SaveCreateTemp \/ SaveWrite \/ SaveFlush
    \/ SaveClose \/ SaveChmod \/ SaveReplace \/ SaveCleanup \/ SaveReturn

SpecSave == InitSave /\ [][NextSave]_vars

\* generate_parameter_files from the sampler's return on (lines 66-96); disk
\* holds, for each run written, the value set at omit_map.boxing.selection.
InitGenerate ==
    /\ pc = "generate"
    /\ call \in {Some(c) : c \in GenerateCalls}
    /\ result = None /\ disk = Some(<<>>) /\ file_path = None
    /\ IdleRadius /\ IdleIndex /\ IdleSolve /\ IdleAggregate
    /\ IdleStat /\ IdleRun /\ IdleCells /\ IdleSampler

GenerateUnchanged == UNCHANGED <<core_vars, stat_vars, run_vars, cell_vars, sampler_vars, call, file_path>>

\* Lines 66-71: the omission table and the sparse map saved as the schedule.
GenerateSchedule ==
    /\ pc = "generate"
    /\ pc' = "runs"
    /\ LET sorted_ids == SortedIds(Get(call).sampled)
           table == build_omission_matrix(sorted_ids, Get(call).sampled)
       IN result' = Some([table |-> table, sparse_map |-> omission_sparse_map(table)])
    /\ UNCHANGED disk
    /\ GenerateUnchanged

\* Lines 73-94: one pass of the loop over enumerate(selections).
GenerateRun ==
    /\ pc = "runs"
    /\ Len(Get(disk)) < Len(Get(call).sampled)
    /\ LET i == Len(Get(disk))
           formatted_sel == format_selection(Get(call).sampled[i + 1], Get(call).omit_type)
       IN disk' = Some(Append(Get(disk), [run |-> i, selection |-> formatted_sel]))
    /\ UNCHANGED <<pc, result>>
    /\ GenerateUnchanged

\* Line 96: return generated_files.
GenerateReturn ==
    /\ pc = "runs"
    /\ Len(Get(disk)) = Len(Get(call).sampled)
    /\ pc' = "generated"
    /\ UNCHANGED <<result, disk>>
    /\ GenerateUnchanged

NextGenerate == GenerateSchedule \/ GenerateRun \/ GenerateReturn

SpecGenerate == InitGenerate /\ [][NextGenerate]_vars

---------------------------------------------------------------------------
(* Claims *)

Solved == pc = "solved"
SolvedWithStatus == Solved /\ Get(sv).status # None

\* The members with flag v in owner column j of a status matrix.
MembersWith(status, j, v) == {m \in DOMAIN status : status[m][j] = v}

\* The values of the members in M, in member order.
RECURSIVE ValuesOf(_, _, _)
ValuesOf(values, M, from) ==
    IF from > Len(values) THEN <<>>
    ELSE (IF from \in M THEN <<values[from]>> ELSE <<>>) \o ValuesOf(values, M, from + 1)

\* mean(values of the present members) - mean(values of the omitted members)
\* when the column has both, else 0.
ColumnBias(values, status, j) ==
    IF MembersWith(status, j, 1) # {} /\ MembersWith(status, j, 0) # {}
    THEN Mean32(ValuesOf(values, MembersWith(status, j, 1), 1))
         - Mean32(ValuesOf(values, MembersWith(status, j, 0), 1))
    ELSE 0

RECURSIVE RowBias(_, _, _, _)
RowBias(values, status, m, j) ==
    IF j = 0 THEN 0
    ELSE status[m][j] * ColumnBias(values, status, j) + RowBias(values, status, m, j - 1)

\* The sample variance (n - 1 denominator) of a vector x, as the sum over the
\* pairs i < j of (x[i] - x[j])^2, divided by n (n - 1).
PairSquares(x) ==
    SumSeq([p \in 1..(Len(x) * Len(x)) |->
        LET i == ((p - 1) \div Len(x)) + 1
            j == ((p - 1) % Len(x)) + 1
        IN IF i < j THEN (x[i] - x[j]) * (x[i] - x[j]) ELSE 0])

SampleStd(x) == IF Len(x) = 1 THEN NaNStd ELSE SqrtOf(PairSquares(x), Len(x) * (Len(x) - 1))

UniformColumns(status) ==
    \A j \in DOMAIN status[1] : MembersWith(status, j, 1) = {} \/ MembersWith(status, j, 0) = {}

\* C1: solve_voxel with a status matrix: the corrected value of member m is
\* values[m] minus the sum over the owner columns j of status[m][j] * bias_j,
\* where bias_j is mean(present) - mean(omitted) for a column holding both a 1
\* and a 0 and is 0 for a uniform column; a matrix of uniform columns leaves the
\* values unchanged; the returned mean and sample standard deviation (n - 1
\* denominator) are those of the corrected vector.
C1_SolveVoxelWithStatus ==
    SolvedWithStatus =>
        LET values == Get(sv).values
            status == Get(Get(sv).status)
            r == Get(Get(sv).result)
        IN /\ DOMAIN r.dist = DOMAIN values
           /\ \A m \in DOMAIN values :
                 r.dist[m] = values[m] - RowBias(values, status, m, Len(status[1]))
           /\ UniformColumns(status) => r.dist = values
           /\ r.mean = Rat(SumSeq(r.dist), Len(r.dist))
           /\ r.std = SampleStd(r.dist)

\* A solve of three members with two owner columns, one mixed with a non-zero
\* bias and one uniform.
C1_Witness ==
    /\ SolvedWithStatus
    /\ Len(Get(sv).values) = 3
    /\ Len(Get(Get(sv).status)[1]) = 2
    /\ ColumnBias(Get(sv).values, Get(Get(sv).status), 1) # 0
    /\ MembersWith(Get(Get(sv).status), 2, 0) = {}
    /\ Get(Get(sv).result).dist # Get(sv).values

RadiusDone == pc = "radius_done"

\* The profile the claim names for an element: its own, or carbon's when the
\* element, in upper case and without surrounding blanks, is not in the table.
ProfileOf(elem) ==
    IF \E e \in DOMAIN ATOM_RADII_DATA : e = Strip(Upper(elem))
    THEN ATOM_RADII_DATA[Strip(Upper(elem))]
    ELSE ATOM_RADII_DATA[<<"C">>]

\* The radius at the largest threshold <= res, or at the smallest threshold
\* when res is below every threshold.
StepRadius(profile, res) ==
    LET below == {t \in DOMAIN profile : t <= res}
        level == IF below = {}
                 THEN CHOOSE t \in DOMAIN profile : \A u \in DOMAIN profile : t <= u
                 ELSE CHOOSE t \in below : \A u \in below : u <= t
    IN profile[level]

\* C9: get_atom_radius(element, resolution) returns, from the profile of the
\* element (carbon's when the element is not in the table), the radius at the
\* largest threshold <= resolution, and the radius of the smallest threshold
\* when the resolution is below every threshold; for a fixed element the
\* result does not decrease as the resolution grows.
C9_RadiusStepFunction ==
    RadiusDone =>
        /\ Get(rq_radius)[1] = StepRadius(ProfileOf(rq.element), rq.res_lo)
        /\ Get(rq_radius)[2] = StepRadius(ProfileOf(rq.element), rq.res_hi)
        /\ Get(rq_radius)[1] <= Get(rq_radius)[2]

\* An element missing from the table, looked up below the smallest threshold
\* and exactly at the 2.0 threshold: carbon's 1.02 and 1.38.
C9_Witness ==
    /\ RadiusDone
    /\ rq.element = <<"Z", "n">>
    /\ rq.res_lo = 3 /\ rq.res_hi = 20
    /\ Get(rq_radius) = <<102, 138>>

Queried == pc = "queried"
QueriedSome == Queried /\ Get(query).result # None

\* The owners with an atom record within its own radius of a point, by a scan
\* of all atom records of the index.
OwnersInRange(idx, point) ==
    {idx.atom_to_owner[i] : i \in {a \in DOMAIN idx.positions :
        /\ idx.radii[a] >= 0
        /\ DistSq(point, idx.positions[a]) <= idx.radii[a] * idx.radii[a]}}

\* The ensemble indices in [0, n) at which the schedule omits owner.
OmittedIn(owner, n) ==
    {id \in Range(Get(spatial_index).owner_schedules[owner]) : 0 <= id /\ id < n}

\* C6: query_voxel_ownership treats an owner as active exactly when one of its
\* atom records lies within that atom's own radius of the point: the ball query
\* with the global maximum radius drops no atom that passes the per-atom
\* filter, the owners of the result are those of a scan of all atom records,
\* and the query returns None exactly when no owner is active.
C6_QueryEqualsScan ==
    Queried =>
        LET idx == Get(spatial_index)
            q == Get(query)
            scan == OwnersInRange(idx, q.point)
        IN /\ \A i \in DOMAIN idx.positions :
                 (idx.radii[i] >= 0 /\ DistSq(q.point, idx.positions[i]) <= idx.radii[i] * idx.radii[i])
                     => i \in query_ball_point(idx.positions, q.point, idx.max_radius)
           /\ (q.result = None) <=> (scan = {})
           /\ q.result # None => Range(Get(q.result).owners) = scan

\* A query at a point that lies on the sphere of one atom and outside the
\* smaller sphere of another atom of the index: one owner is active.
C6_Witness ==
    /\ QueriedSome
    /\ \E i, j \in DOMAIN Get(spatial_index).positions :
          LET idx == Get(spatial_index)
          IN /\ DistSq(Get(query).point, idx.positions[i]) = idx.radii[i] * idx.radii[i]
             /\ DistSq(Get(query).point, idx.positions[j]) > idx.radii[j] * idx.radii[j]
             /\ idx.radii[j] < idx.radii[i]
    /\ Cardinality(Range(Get(Get(query).result).owners)) = 1

\* C7: the status matrix has exactly one column per distinct active owner,
\* also when several atoms of one owner are within range of the point.
C7_OneColumnPerOwner ==
    QueriedSome =>
        LET r == Get(Get(query).result)
            scan == OwnersInRange(Get(spatial_index), Get(query).point)
        IN /\ \A row \in DOMAIN r.status : Len(r.status[row]) = Cardinality(scan)
           /\ Len(r.owners) = Cardinality(scan)
           /\ \A a, b \in DOMAIN r.owners : r.owners[a] = r.owners[b] => a = b

\* A query with two atom records of one owner within range: one column.
C7_Witness ==
    /\ QueriedSome
    /\ \E i, j \in DOMAIN Get(spatial_index).positions :
          LET idx == Get(spatial_index)
          IN /\ i # j
             /\ idx.atom_to_owner[i] = idx.atom_to_owner[j]
             /\ DistSq(Get(query).point, idx.positions[i]) <= idx.radii[i] * idx.radii[i]
             /\ DistSq(Get(query).point, idx.positions[j]) <= idx.radii[j] * idx.radii[j]
    /\ Len(Get(Get(query).result).status[1]) = 1

\* C8: for ensemble size n the status matrix has n rows; entry (m, j) is 0
\* exactly when m is a scheduled omission index of the owner of column j with
\* 0 <= m < n, and 1 otherwise, so scheduled indices outside [0, n) change no
\* entry.
C8_StatusFollowsSchedule ==
    QueriedSome =>
        LET r == Get(Get(query).result)
            n == Get(query).n_maps
        IN /\ DOMAIN r.status = 1..n
           /\ \A row \in 1..n : \A col \in DOMAIN r.owners :
                 /\ r.status[row][col] \in {0, 1}
                 /\ r.status[row][col] = 0 <=> (row - 1) \in OmittedIn(r.owners[col], n)

\* Scenario 2: an owner scheduled at indices 0..4 queried with n = 3, and an
\* owner scheduled at -1 and 0: the rows 0..2 of the first are 0.
C8_Witness ==
    /\ QueriedSome
    /\ Get(query).n_maps = 3
    /\ \E col \in DOMAIN Get(Get(query).result).owners :
          LET r == Get(Get(query).result)
          IN /\ Get(spatial_index).owner_schedules[r.owners[col]] = <<0, 1, 2, 3, 4>>
             /\ \A row \in 1..3 : r.status[row][col] = 0

\* C10: no atom record of a built index belongs to a hydrogen atom of the
\* structure, in atom mode as in residue mode.
C10_NoHydrogenRecord ==
    spatial_index # None =>
        \A i \in DOMAIN Get(spatial_index).positions :
            \A a \in DOMAIN Structure :
                Structure[a].pos = Get(spatial_index).positions[i] => Structure[a].element # <<"H">>

\* The atoms of the structure a schedule key names: in residue mode the
\* non-hydrogen atoms of the residue, in atom mode the atoms of that name (and
\* alternate location, when the key gives one) in the residue.
AtomsNamedBy(key, md) ==
    {a \in DOMAIN Structure :
        IF md = "amino_acids"
        THEN /\ Len(key) >= 3
             /\ Structure[a].chain = key[1] /\ Structure[a].seq = key[2]
             /\ Structure[a].element # <<"H">>
        ELSE /\ Len(key) >= 4
             /\ Structure[a].chain = key[1] /\ Structure[a].seq = key[2]
             /\ Structure[a].name = key[4]
             /\ (Len(key) < 5 \/ key[5] = NUL \/ Structure[a].altloc = key[5])}

\* C11: build_spatial_index adds no atom record for a schedule key that names
\* no atom of the structure, and it returns an index exactly when at least
\* one schedule key names at least one atom, whatever the lists of omitted
\* indices of the entries are.
C11_BuildFailsOnlyWhenNothingResolves ==
    pc \in {"built", "failed"} =>
        /\ spatial_index # None <=>
              \E e \in DOMAIN omission_map : AtomsNamedBy(omission_map[e][1], mode) # {}
        /\ spatial_index # None =>
              \A i \in DOMAIN Get(spatial_index).atom_to_owner :
                  AtomsNamedBy(Get(spatial_index).atom_to_owner[i], mode) # {}

\* The samples of the trials whose coordinate lies inside the mask (mask
\* value 1), in the order of the trials.
RECURSIVE KeptValues(_)
KeptValues(coords) ==
    IF coords = <<>> THEN <<>>
    ELSE (IF Get(mask).value[Wrap(coords[1])] = 2
          THEN <<normalize(Get(snr_grid))[NodeOf(coords[1])]>> ELSE <<>>)
         \o KeptValues(Tail(coords))

SamplingOver == pc \in {"sampled", "fitted", "raised", "finished"} /\ snr_grid # None /\ draws # <<>>

\* C18: sample_null_distribution performs exactly N trials (never more while
\* it runs) and its result holds the value of a trial exactly when the
\* trial's coordinate is inside the mask: between 0 and N samples, and none
\* when the mask excludes every coordinate drawn.
C18_SamplesAreTrialsInsideMask ==
    /\ Len(draws) <= n_samples
    /\ pc \in {"sampled", "fitted"} =>
          /\ Len(draws) = n_samples
          /\ null_samples = KeptValues(draws)
          /\ Len(null_samples) <= n_samples
          /\ (\A i \in DOMAIN draws : Get(mask).value[Wrap(draws[i])] # 2) => null_samples = <<>>

\* Three trials of which some, but not all, were inside the mask.
C18_Witness ==
    /\ pc = "sampled" /\ files = None
    /\ n_samples = 3
    /\ Len(null_samples) \in {1, 2}

\* C14: fit_t_test on an empty null sample set does not raise and returns a
\* grid of the shape of the SNR grid that is 0 at every cell.
C14_EmptyNullGivesZeroGrid ==
    (pc \in {"fitted", "raised"} /\ files = None /\ null_samples = <<>>) =>
        /\ pc = "fitted"
        /\ DOMAIN Get(p_value_map) = DOMAIN Get(snr_grid)
        /\ \A c \in DOMAIN Get(snr_grid) : Get(p_value_map)[c] = PZero

\* A fit on the empty result of trials that all fell outside the mask, for
\* an SNR grid that is not constant.
C14_Witness ==
    /\ pc = "fitted" /\ files = None
    /\ n_samples > 0 /\ null_samples = <<>>
    /\ \E c \in DOMAIN Get(snr_grid) : Get(snr_grid)[c] # Get(snr_grid)[1]

Called(stage) == \E i \in DOMAIN stages : stages[i] = stage

\* No key of the schedule names an atom of the structure.
NoKeyResolves ==
    \A e \in DOMAIN omission_map : AtomsNamedBy(omission_map[e][1], mode) = {}

\* C12: when no schedule key resolves to an atom, build_spatial_index returns
\* None and run_quantification returns at once: the ensemble is not loaded,
\* aggregate_ensemble, the null sampler and the fit are not called and no
\* output is written.
C12_EmptyIndexAborts ==
    (Called("build_spatial_index") /\ NoKeyResolves) =>
        /\ pc = "returned"
        /\ spatial_index = None
        /\ stages = <<"build_spatial_index">>
        /\ ensemble = None /\ outputs = None /\ snr_grid = None
        /\ draws = <<>> /\ null_samples = <<>> /\ p_value_map = None
        /\ written = {}

\* A run whose schedule names only a residue that the structure does not
\* have.
C12_Witness ==
    /\ pc = "returned"
    /\ omission_map = <<<<KeyGone, <<1, 3>>>>>>
    /\ \E i \in DOMAIN diag : diag[i].level = "error"

\* The grids of the map files that exist do not all have one shape.
ShapesDiffer ==
    \E i, j \in DOMAIN Get(files).maps :
        /\ Get(files).maps[i].exists /\ Get(files).maps[j].exists
        /\ DOMAIN Get(files).maps[i].grid # DOMAIN Get(files).maps[j].grid

IsPrefix(s, t) == Len(s) <= Len(t) /\ \A i \in DOMAIN s : s[i] = t[i]

\* C13: the stages of a run are called at most once each and in the order
\* build index, (load and) aggregate, sample null, fit; a stage is called only
\* after every earlier stage has succeeded, and after a stage has failed no
\* later stage is called and no later output is written.
C13_LinearPipeline ==
    files # None =>
        /\ IsPrefix(stages, StageOrder)
        /\ Called("load_ensemble") => spatial_index # None
        /\ Called("aggregate_ensemble") => ~ShapesDiffer /\ ensemble # None
        /\ Called("sample_null_distribution") => outputs # None /\ AggregateFiles \subseteq written
        /\ Called("fit_t_test") => Get(files).original_pdb /\ Len(draws) = n_samples
        /\ written # {} => Called("aggregate_ensemble") /\ outputs # None
        /\ "p_value" \in written =>
              /\ Called("fit_t_test") /\ p_value_map # None
              /\ \A i \in DOMAIN null_samples : null_samples[i] # NaN
        /\ (Called("build_spatial_index") /\ spatial_index = None) =>
              stages = <<"build_spatial_index">> /\ written = {}
        /\ ShapesDiffer => ~Called("aggregate_ensemble") /\ written = {}
        /\ ~Get(files).original_pdb => ~Called("fit_t_test") /\ "p_value" \notin written
        /\ pc \in {"raised", "returned"} => "p_value" \notin written

\* A run in which the fit raised, after the maps of the aggregation had been
\* written.
C13_Witness ==
    /\ files # None
    /\ pc = "raised"
    /\ stages = StageOrder
    /\ written = AggregateFiles

\* C15: a finished run whose null sample set was empty has printed a warning
\* about it, which a fully successful run does not print.
C15_EmptyNullIsSignalled ==
    (files # None /\ pc = "finished" /\ null_samples = <<>>) =>
        \E i \in DOMAIN diag : diag[i].level = "warning" /\ diag[i].text # "Missing map"

\* The sampler has yielded: it is between iterations or has returned.
SamplerYielded == pc \in {"shuffling", "sampler_done"}

\* The IDs the always_omit string names.
NamedIds(a) ==
    IF a.always_omit = None THEN {}
    ELSE {FormatSelector(sel) : sel \in {x \in Range(Get(a.always_omit)) : ~SelectorRaises(x)}}

\* The IDs of the structure, for the mode of the call.
StructureIds(a) == Range(extract_ids(Get(a.structure), a.mode))

RemainingPool(a) == StructureIds(a) \ NamedIds(a)

\* ceil(remaining_n / s) for s = max(1, round(remaining_n * fraction)).
SelectionsPerIteration(a) ==
    LET n == Cardinality(RemainingPool(a))
        r == RoundHalfEven(n * a.fraction[1], a.fraction[2])
        s == IF r > 1 THEN r ELSE 1
    IN (n + s - 1) \div s

\* The part of selection i outside always_omit.
SampledPart(a, i) ==
    LET NotNamed(x) == x \notin NamedIds(a)
    IN SelectSeq(selections[i], NotNamed)

\* C20: for a fraction of at most 0.5 and a non-empty remaining pool, after
\* t iterations there are t * ceil(remaining_n / s) selections, with
\* s = max(1, round(remaining_n * fraction)); within each iteration the
\* sampled parts are pairwise disjoint and hold every remaining ID exactly
\* once; the sampler returns after the requested number of iterations.
C20_DisjointChunksCoverPool ==
    (SamplerYielded /\ FracLeq(Get(sample_args).fraction, <<1, 2>>)
                    /\ RemainingPool(Get(sample_args)) # {}) =>
        LET a == Get(sample_args)
            per == SelectionsPerIteration(a)
            Block(t) == ((t - 1) * per + 1)..(t * per)
        IN /\ Len(selections) = iteration * per
           /\ (pc = "sampler_done" /\ a.n_iterations # None) => iteration = Get(a.n_iterations)
           /\ \A t \in 1..iteration :
                 /\ \A i, j \in Block(t) :
                       i # j => Range(SampledPart(a, i)) \cap Range(SampledPart(a, j)) = {}
                 /\ UNION {Range(SampledPart(a, i)) : i \in Block(t)} = RemainingPool(a)
                 /\ \A i \in Block(t) :
                       Len(SampledPart(a, i)) = Cardinality(Range(SampledPart(a, i)))

\* Two iterations over a pool of three IDs with fraction 1/2: chunks of two
\* and one, four selections.
C20_Witness ==
    /\ pc = "sampler_done" /\ iteration = 2
    /\ Get(sample_args).fraction = <<4, 8>>
    /\ Cardinality(RemainingPool(Get(sample_args))) = 3
    /\ Len(selections) = 4
    /\ Len(selections[1]) = 2 /\ Len(selections[2]) = 1

\* The sampler call has left validation behind: it raised, or it went on.
Validated == pc \in {"sampler_raised", "shuffling", "sampler_done"}

\* omit_fraction is strictly between 0 and 1.
FractionInRange(f) == 0 < f[1] /\ f[1] < f[2]

\* C21: stochastic_omission_sampler raises IOError when no file is at the
\* structure path, otherwise ValueError when omit_fraction is not strictly
\* between 0 and 1 or n_iterations is given and below 1; when it raises so,
\* the structure has not been read and no selection exists; for valid
\* arguments validation raises nothing and the structure is read.
C21_ValidationBeforeReading ==
    Validated =>
        LET a == Get(sample_args)
            bad_value == \/ ~FractionInRange(a.fraction)
                         \/ (a.n_iterations # None /\ Get(a.n_iterations) < 1)
            rejected == /\ pc = "sampler_raised"
                        /\ calls = <<"_validate_sampler_inputs">>
                        /\ selections = <<>>
        IN /\ a.structure = None => (rejected /\ exception = "IOError")
           /\ (a.structure # None /\ bad_value) => (rejected /\ exception = "ValueError")
           /\ (a.structure # None /\ ~bad_value) =>
                 /\ Len(calls) >= 3 /\ calls[3] = "read_structure"
                 /\ (pc = "sampler_raised" => "_apply_always_omit_selectors" \in Range(calls))

\* A call on an existing structure with fraction 1 (8/8) has raised
\* ValueError.
C21_Witness ==
    /\ pc = "sampler_raised" /\ exception = "ValueError"
    /\ Get(sample_args).structure # None
    /\ Get(sample_args).fraction = <<8, 8>>
    /\ Get(sample_args).n_iterations = Some(2)

\* A call on a missing path has raised IOError.
C21_WitnessMissingPath ==
    /\ pc = "sampler_raised" /\ exception = "IOError"
    /\ Get(sample_args).structure = None

\* The configuration names a path: the field is set and not empty.
HasPath(path) == path # None /\ Get(path).text # ""

\* C22: _config_validator raises ValueError exactly when the configuration
\* has neither a screening_path nor both manual paths; with both manual paths
\* it raises FileNotFoundError when the structure or the reflections file is
\* missing, with a screening_path when that path is missing; in every other
\* case it returns.
C22_ConfigValidatorOutcome ==
    pc = "config_done" =>
        LET d == Get(call)
            screening == HasPath(d.screening_path)
            manual == HasPath(d.structure_path) /\ HasPath(d.reflections_path)
            missing == \/ manual /\ ~Get(d.structure_path).exists
                       \/ manual /\ ~Get(d.reflections_path).exists
                       \/ screening /\ ~Get(d.screening_path).exists
        IN /\ (Get(result) = "ValueError") <=> ~(screening \/ manual)
           /\ (Get(result) = "FileNotFoundError") <=> ((screening \/ manual) /\ missing)
           /\ (Get(result) = "returned") <=> ((screening \/ manual) /\ ~missing)

\* A configuration with only a structure_path, whose file exists, was
\* rejected with ValueError.
C22_Witness ==
    /\ pc = "config_done" /\ Get(result) = "ValueError"
    /\ Get(call).structure_path = Some([text |-> "p", exists |-> TRUE])
    /\ Get(call).reflections_path = None
    /\ Get(call).screening_path = Some([text |-> "", exists |-> FALSE])

\* A parsed value with every dict as the function from its keys to its
\* values: dict equality does not look at the order of the keys.
RECURSIVE Unordered(_)
Unordered(value) ==
    IF value.type # "dict" THEN value
    ELSE [type |-> "dict",
          v |-> [key \in {value.v[i].key : i \in DOMAIN value.v} |->
                    Unordered(value.v[CHOOSE i \in DOMAIN value.v : value.v[i].key = key].val)]]

\* C23: for every parameter text c,
\* parse_parameters(format_parameters(parse_parameters(c))) equals
\* parse_parameters(c).
C23_ParseFormatRoundTrip ==
    pc = "parse_done" => Unordered(Get(result).reparsed) = Unordered(Get(result).parsed)

\* C24: in the ensemble handed to aggregate_ensemble, row r holds the map of
\* member r: the file of index r exists and the row is its grid (rows and
\* members counted from 1 here).
C24_RowIsMember ==
    (files # None /\ ensemble # None) =>
        \A r \in DOMAIN Get(ensemble).members :
            /\ Get(files).maps[r].exists
            /\ Get(ensemble).members[r] = Get(files).maps[r].grid

\* Every key of the schedule is an atom-level key (five parts), or every key
\* a residue-level key (three parts).
AllAtomKeys == \A e \in DOMAIN omission_map : Len(omission_map[e][1]) = 5
AllResidueKeys == \A e \in DOMAIN omission_map : Len(omission_map[e][1]) = 3

\* The atoms the index holds for an owner.
AtomsOfOwner(index, owner) == {i \in DOMAIN index.atom_to_owner : index.atom_to_owner[i] = owner}

\* C25: for a schedule of atom-level keys infer_omission_mode returns
\* "atoms", and the index built holds at most one atom per owner key;
\* "amino_acids" is returned only for schedules of residue-level keys.
C25_AtomKeysGiveAtomMode ==
    (files # None /\ Called("build_spatial_index") /\ (AllAtomKeys \/ AllResidueKeys)) =>
        /\ AllAtomKeys =>
              /\ mode = "atoms"
              /\ spatial_index # None =>
                    \A o \in Range(Get(spatial_index).atom_to_owner) :
                        Cardinality(AtomsOfOwner(Get(spatial_index), o)) <= 1
        /\ mode = "amino_acids" => AllResidueKeys

\* The values of the SNR grid at the coordinates inside the mask, as samples
\* taken from the grid itself.
RECURSIVE GridValuesKept(_)
GridValuesKept(coords) ==
    IF coords = <<>> THEN <<>>
    ELSE (IF Get(mask).value[Wrap(coords[1])] = 2
          THEN <<[tag |-> "value", x |-> <<Get(snr_grid)[NodeOf(coords[1])]>>]>> ELSE <<>>)
         \o GridValuesKept(Tail(coords))

\* C27: in a run, the null samples are the values of the SNR grid written by
\* the aggregation at the sampled coordinates, the grid on which fit_t_test
\* evaluates the survival function, and not values of a rescaled copy.
C27_SamplesAreSnrValues ==
    (files # None /\ pc \in {"sampled", "finished"}) =>
        null_samples = GridValuesKept(draws)

\* The complete result set of a run.
ResultSet == AggregateFiles \cup {"p_value"}

\* C26: a run without force that finds the SNR map returns without calling a
\* stage or computing anything, and whenever a run skips in this way the
\* output directory holds the complete result set.
C26_SkipMeansComplete ==
    pc = "skipped" =>
        /\ stages = <<>> /\ outputs = None /\ p_value_map = None
        /\ ResultSet \subseteq written

\* The key of an ID in the schedule: its fields, the number in decimal.
KeyOfId(id) == <<id[1], IntStr[id[2]], id[3]>>

Ascending(list) == \A a, b \in DOMAIN list : a < b => list[a] < list[b]

\* C28: the sparse map has an entry for every ID of all_ids; sample index j
\* is listed under an ID exactly when the ID is in selections[j]; each list is
\* strictly ascending and holds indices in [0, number of selections) only.
C28_SparseMapIsSchedule ==
    pc = "table_done" =>
        LET c == Get(call)
            m == Get(result).sparse_map
        IN \A i \in DOMAIN c.all_ids :
              LET sid == KeyOfId(c.all_ids[i])
              IN /\ sid \in DOMAIN m
                 /\ \A j \in 0..(Len(c.selections) - 1) :
                       (j \in Range(m[sid])) <=> (c.all_ids[i] \in Range(c.selections[j + 1]))
                 /\ Ascending(m[sid])
                 /\ \A x \in DOMAIN m[sid] : 0 <= m[sid][x] /\ m[sid][x] < Len(c.selections)

\* Two IDs and two selections: the first ID is in both selections, the
\* second in none.
C28_Witness ==
    /\ pc = "table_done"
    /\ Get(call).all_ids = <<<<"A", 1, "SER">>, <<"A", 3, "GLY">>>>
    /\ Len(Get(call).selections) = 2
    /\ Get(result).sparse_map[<<"A", "1", "SER">>] = <<0, 1>>
    /\ Get(result).sparse_map[<<"A", "3", "GLY">>] = <<>>

SavePositions ==
    {"save", "mkdir", "create_tmp", "write", "flush", "close", "chmod", "replace",
     "cleanup", "replaced", "save_raised", "save_returned"}

\* Every path holds what it held before the save, or, the target, the
\* complete formatted text.
TargetNeverPartial ==
    \A p \in Paths :
        \/ Get(disk).files[p] = Get(call).before.files[p]
        \/ Some(p) = Target /\ Get(disk).files[p] = Some(Formatted(Get(call).params))

FailureKeepsTarget ==
    /\ Get(disk).files = Get(call).before.files
    /\ result # None /\ Get(result).exception # ""
    /\ file_path = Get(call).before.file_path

FailureRemovesTemp == Get(disk).tmp = None

\* C29: during a save the target holds its previous content or the complete
\* new content; after a failed save the target holds its previous content,
\* the temporary file is gone, an error was raised and file_path is unchanged.
C29_SaveIsAtomic ==
    pc \in SavePositions =>
        /\ TargetNeverPartial
        /\ pc = "save_raised" => (FailureKeepsTarget /\ FailureRemovesTemp)

\* C29, amended: during a save the target holds its previous content or the
\* complete new content; after a failed save the target holds its previous
\* content, an error was raised, file_path is unchanged, and the temporary
\* file is gone unless its removal failed too; after a save that returned
\* the target holds the complete new content and file_path is the target.
C29_SaveIsAtomicUnlessUnlinkFails ==
    pc \in SavePositions =>
        /\ TargetNeverPartial
        /\ pc = "save_raised" =>
              /\ FailureKeepsTarget
              /\ FailureRemovesTemp \/ Get(result).unlink = "failed"
        /\ pc = "save_returned" =>
              /\ Get(disk).files[Get(Target)] = Some(Formatted(Get(call).params))
              /\ Get(disk).tmp = None
              /\ file_path = Target

\* A save over an earlier file failed at the flush, after a part of the text
\* reached the temporary file, and the temporary file was removed.
C29_Witness ==
    /\ pc = "save_raised"
    /\ Get(result).step = "flush" /\ Get(result).unlink = "done"
    /\ Get(disk).tmp = None
    /\ Get(call).before.files[Get(Target)] = Some(EarlierContent)
    /\ Get(disk).files[Get(Target)] = Some(EarlierContent)

\* text.split(" or "): the clauses of a selection string.
RECURSIVE SplitOr(_, _)
SplitOr(text, clause) ==
    IF text = <<>> THEN (IF clause = <<>> THEN <<>> ELSE <<clause>>)
    ELSE IF Len(text) >= 3 /\ SubSeq(text, 1, 3) = <<" ", "or", " ">>
    THEN <<clause>> \o SplitOr(SubSeq(text, 4, Len(text)), <<>>)
    ELSE SplitOr(Tail(text), Append(clause, text[1]))

Contains(text, part) ==
    \E at \in 1..(Len(text) - Len(part) + 1) : SubSeq(text, at, at + Len(part) - 1) = part

Parenthesised(clause) ==
    /\ Len(clause) >= 2 /\ clause[1] = "(" /\ clause[Len(clause)] = ")"
    /\ \A x \in 2..(Len(clause) - 1) : clause[x] \notin {"(", ")"}

\* The clause selects the chain and residue number of the ID and, for an
\* AtomID, its atom name.
Names(clause, id) ==
    /\ Contains(clause, <<"chain", " ", id[1], " ">>)
    /\ \/ Contains(clause, <<"resid", " ", IntStr[id[2]], " ">>)
       \/ Contains(clause, <<"resid", " ", IntStr[id[2]], ")">>)
    /\ Len(id) = 5 => Contains(clause, <<"name", " ", id[4], ")">>)

\* C30: for the omit types "amino_acids" and "atoms", the selection string
\* written for run i has one parenthesised clause per ID of a non-empty
\* selection i, clause j naming ID j, the clauses joined by " or "; so every
\* ID the schedule lists under sample i is named in the file of run i.
C30_ParameterFileNamesOmitted ==
    (pc \in {"runs", "generated"} /\ Get(call).omit_type \in {"amino_acids", "atoms"}) =>
        \A r \in DOMAIN Get(disk) :
            LET sel == Get(call).sampled[r]
                clauses == SplitOr(Get(disk)[r].selection, <<>>)
            IN sel # <<>> =>
                  /\ Len(clauses) = Len(sel)
                  /\ \A j \in DOMAIN clauses : Parenthesised(clauses[j]) /\ Names(clauses[j], sel[j])
                  /\ \A id \in Flattened(Get(call).sampled) :
                        (r - 1) \in Range(Get(result).sparse_map[id_to_str(id)]) =>
                            \E j \in DOMAIN clauses : Names(clauses[j], id)

\* The same statement for the omit types _format_selection has a branch for.
FormatSelectionListsClauses ==
    (pc \in {"runs", "generated"} /\ Get(call).omit_type \in {"residues", "atoms"}) =>
        \A r \in DOMAIN Get(disk) :
            LET sel == Get(call).sampled[r]
                clauses == SplitOr(Get(disk)[r].selection, <<>>)
            IN sel # <<>> =>
                  /\ Len(clauses) = Len(sel)
                  /\ \A j \in DOMAIN clauses : Parenthesised(clauses[j]) /\ Names(clauses[j], sel[j])

\* C16: when the grids of the ensemble's maps do not all have one shape, or
\* their shape is not that of the mask, the run stops before the aggregation:
\* aggregate_ensemble is not called and no output is written.
C16_ShapeMismatchRejected ==
    (files # None /\ pc # "run" /\ Get(files).maps[1].exists
        /\ (ShapesDiffer \/ Get(mask).shape # GridShape)) =>
            /\ ~Called("aggregate_ensemble")
            /\ written = {}

Done == pc = "done"

\* The value vector of the ensemble at cell c.
ValuesAt(c) == [m \in DOMAIN Get(ensemble).members |-> Get(ensemble).members[m][c]]

OwnersAt(c) == OwnersInRange(Get(spatial_index), get_position(c))

NMaps == Len(Get(ensemble).members)

\* C3: at every cell where the ownership query reports no owners, solve_voxel
\* returns the raw ensemble mean, the raw sample standard deviation (n - 1
\* denominator) and the raw value vector, element by element, and
\* aggregate_ensemble stores exactly these at the cell.
C3_NoOwnersKeepsRaw ==
    Done =>
        \A c \in Cells :
            query_voxel_ownership(spatial_index, get_position(c), NMaps, <<>>) = None =>
                /\ Get(outputs)[c].sig = Mean32(ValuesAt(c))
                /\ Get(outputs)[c].nos = Std32(ValuesAt(c))
                /\ Get(outputs)[c].dist = ValuesAt(c)

\* An aggregated ensemble of three differing members with a cell that has no
\* owner and a cell that has one.
C3_Witness ==
    /\ Done
    /\ NMaps = 3
    /\ \E c \in Cells : OwnersAt(c) = {} /\ Get(outputs)[c].nos.num > 0
    /\ \E c \in Cells : OwnersAt(c) # {}

\* C4: at every cell the SNR is mean / standard deviation when the standard
\* deviation is greater than the floor 1e-12, and exactly 0 when it is at or
\* below the floor or NaN; no SNR is a quotient by a standard deviation at or
\* below the floor.
C4_SnrFloor ==
    Done =>
        \A c \in Cells :
            LET o == Get(outputs)[c]
                above == o.nos.tag = "sqrt" /\ RatLess(FloorSq(Get(ensemble).scale), o.nos)
            IN /\ above => /\ o.snr.tag = "ratio"
                           /\ o.snr.n = <<o.nos>>
                           /\ Cast32(Get(o.snr.s)) = o.sig
               /\ ~above => o.snr = SNRZero

\* An aggregation that wrote a zero SNR at a cell whose standard deviation is
\* positive but below the floor, and a quotient at another cell.
C4_Witness ==
    /\ Done
    /\ \E c \in Cells : /\ Get(outputs)[c].nos.tag = "sqrt"
                        /\ Get(outputs)[c].nos.num > 0
                        /\ Get(outputs)[c].snr = SNRZero
    /\ \E c \in Cells : Get(outputs)[c].snr.tag = "ratio"

\* The cells of scenario 1: an ensemble of 4 members and a cell covered by
\* exactly one owner, which the schedule omits in members 1 and 3.
Scenario1(c) ==
    /\ Done
    /\ NMaps = 4
    /\ \E o \in OwnersAt(c) : OwnersAt(c) = {o} /\ OmittedIn(o, 4) = {1, 3}

\* mean(values at members 0, 2) - mean(values at members 1, 3); member m is
\* position m + 1 of the value vector.
Scenario1Bias(v) == Mean32(<<v[1], v[3]>>) - Mean32(<<v[2], v[4]>>)

\* C2, as claimed: in scenario 1 the corrected vector is the raw vector with
\* the bias subtracted from members 1 and 3 (the omitted members), members 0
\* and 2 keeping their raw values.
C2_BiasSubtractedFromOmitted ==
    \A c \in Cells :
        Scenario1(c) =>
            LET v == ValuesAt(c)
                b == Scenario1Bias(v)
            IN Get(outputs)[c].dist = <<v[1], v[2] - b, v[3], v[4] - b>>

\* C2, amended: in scenario 1 the bias is mean(values at {0,2}) - mean(values
\* at {1,3}) and the corrected vector is the raw vector with that bias
\* subtracted from members 0 and 2 (the members in which the owner is present,
\* status 1), members 1 and 3 (the omitted members) keeping their raw values.
C2_BiasSubtractedFromPresent ==
    \A c \in Cells :
        Scenario1(c) =>
            LET v == ValuesAt(c)
                b == Scenario1Bias(v)
            IN Get(outputs)[c].dist = <<v[1] - b, v[2], v[3] - b, v[4]>>

\* Scenario 1 at a cell with a non-zero bias.
C2_Witness ==
    \E c \in Cells : Scenario1(c) /\ Scenario1Bias(ValuesAt(c)) # 0

\* The four values of cell c computed from the value vector at c, the
\* coordinate of c and the index alone, for one order of the owners' columns.
CellFunction(c, order) ==
    LET status == query_voxel_ownership(spatial_index, get_position(c), NMaps, order)
        r == solve_voxel(ValuesAt(c), IF status = None THEN None ELSE Some(Get(status).status))
    IN [sig |-> Cast32(r.mean), nos |-> r.std,
        snr |-> SnrOf(r.mean, r.std, Get(ensemble).scale), dist |-> r.dist]

\* C17: whatever the order in which the cells are computed, what is written
\* at a cell is a function of the values at that cell, its coordinate and
\* the index only; no cell is written twice, and when all cells are done
\* every cell has been written once and the four outputs are those of the
\* sequential triple loop.
C17_CellsAreIndependent ==
    cell_writes # <<>> =>
        /\ \A c \in Cells : cell_writes[c] <= 1
        /\ outputs # None =>
              /\ DOMAIN Get(outputs) = {c \in Cells : cell_writes[c] = 1}
              /\ \A c \in DOMAIN Get(outputs) :
                    \A order \in OwnerOrders(spatial_index, get_position(c)) :
                        Get(outputs)[c] = CellFunction(c, order)
        /\ pc = "done" =>
              /\ \A c \in Cells : cell_writes[c] = 1
              /\ \A orders \in OrderChoices(spatial_index, Len(CellSeq)) :
                    Get(outputs) = aggregate_ensemble(Get(ensemble), spatial_index, orders)

\* The last cell of the loop has been written while the first has not, at a
\* point where the cells differ in their values and two owners are active at
\* the first cell.
C17_Witness ==
    /\ cell_writes # <<>> /\ outputs # None
    /\ cell_writes[Len(CellSeq)] = 1 /\ cell_writes[1] = 0
    /\ Cardinality(OwnersAt(1)) = 2
    /\ \E m \in DOMAIN Get(ensemble).members :
          Get(ensemble).members[m][1] # Get(ensemble).members[m][Len(CellSeq)]

AllMembersIdentical ==
    \A m \in DOMAIN Get(ensemble).members : Get(ensemble).members[m] = Get(ensemble).members[1]

\* C5, for the ensembles of at least two members (for which the sample
\* standard deviation is defined): aggregating an ensemble whose members
\* are all identical yields noise = 0 and SNR = 0 at every cell.
C5_IdenticalMembersNoNoise ==
    (Done /\ AllMembersIdentical /\ NMaps >= 2) =>
        \A c \in Cells :
            /\ Get(outputs)[c].nos = SqrtOf(0, 1)
            /\ Get(outputs)[c].snr = SNRZero

=============================================================================
